---- MODULE Spec2Model ----
(***************************************************************************)
(* MatchingService of rfp-tracker-backend                                  *)
(* (src/rfp-tracker-backend/src/service/matching-service.ts).              *)
(*                                                                         *)
(* An invocation of an @executable() method is served alone in every       *)
(* specification but SpecInterleaved, where two are in progress and the    *)
(* event loop goes from one to the other at their awaits (Resume).  An     *)
(* async method runs without interruption up to its next `await` of an     *)
(* external call, so every action below is one such run: the call action   *)
(* runs the method from its first line to the first external call (or to   *)
(* its return/throw), and a reply action runs it from the return of that   *)
(* call to the next one.  The agent (agent.ask) and the knowledge base     *)
(* (kb.searchContextsWithPrompt, kb.upsertKnowledgeBase, kb.upsertContext, *)
(* kb.upsertContexts) are the environment: their replies are chosen by the *)
(* reply actions.  `corpus` is what the stores of this service have put    *)
(* into the knowledge base; it outlives the invocations.  The ranking of   *)
(* the search is the knowledge base's own, so the hits of a search are any *)
(* stored contexts with any scores.  The clock `now` is read by the stores *)
(* for addedAt; all contexts of one storeProjects call get one instant.    *)
(*                                                                         *)
(* Numbers: scores are integers.  goodFitPercentage and averageFitScore    *)
(* are quotients (IEEE doubles in the code); the model computes with their *)
(* numerators and denominators, exactly.  A value the code gets by a       *)
(* division is a record [nan, n]: n when nan is FALSE, and NaN, the result *)
(* of 0 / 0, when it is TRUE.  The two statistics the code rounds to 2     *)
(* decimals are kept in hundredths (7500 is 75.00).                        *)
(***************************************************************************)
EXTENDS Integers, Sequences, FiniteSets, TLC

VARIABLES
  op,                       \* the method being served, "idle" when none
  pc,                       \* "idle", "await_agent", "await_search", "done"
  args,                     \* the arguments of the invocation
  batch,                    \* matchProjects: its `projects` parameter
  k,                        \* matchProjects / fit analyzer: position of the for-of loop (1-based)
  results,                  \* matchProjects: `results`
  i,                        \* matchProjectsBatch: `i`
  resultsBatch,             \* matchProjectsBatch: `results`
  similarProjectResults,    \* isProjectGoodFitByKnowledgeBase: the hits of the search
  relevantSimilarProjects,  \* isProjectGoodFitByKnowledgeBase: the filtered hits
  similarProjectsAnalysis,  \* isProjectGoodFitByKnowledgeBase: the scored candidates
  outcome,                  \* what the invocation gave its caller: [kind, value, message]
  agentLog,                 \* prompts given to agent.ask in this invocation, in order
  searchLog,                \* prompts given to kb.searchContextsWithPrompt, in order
  replyLog,                 \* the agent's replies to them, in order
  outstanding,              \* external calls issued and not yet answered
  searchReplies,            \* how the searches of this invocation settled, in order
  storeLog,                 \* calls of kb.upsert... made by this invocation, in order
  storeReplies,             \* how they settled, in order
  corpus,                   \* the contexts the knowledge base holds (external state)
  knowledgeBase,            \* "absent", or "defined" once upsertKnowledgeBase succeeded
  lastStored,               \* per project id, the project of the last store that succeeded,
                            \* and whether the id had been stored before
  now,                      \* the clock read by `new Date()`
  current,                  \* the invocation whose run the variables above hold
  suspended                 \* the other invocations, each as it stands at its await

vars == <<op, pc, args, batch, k, results, i, resultsBatch, similarProjectResults,
          relevantSimilarProjects, similarProjectsAnalysis, outcome, agentLog, searchLog,
          replyLog, outstanding, searchReplies, storeLog, storeReplies, corpus,
          knowledgeBase, lastStored, now, current, suspended>>

matchVars == <<batch, k, results>>
batchVars == <<i, resultsBatch>>
fitVars == <<similarProjectResults, relevantSimilarProjects, similarProjectsAnalysis>>
storeVars == <<storeLog, storeReplies, corpus, knowledgeBase, lastStored, now>>
schedVars == <<current, suspended>>

----------------------------------------------------------------------------
\* Bounds of the model and the input domains built from them.

MaxProjects == 3
MaxHits == 3
MaxCandidates == 8
MaxBatch == 2
MaxStored == 10
MaxTime == 2
LargeLimit == 101
MaxInterleaved == 2

Profiles == {"", "acme"}
ProjectPool == {[id |-> "p1", description |-> "d1"], [id |-> "p2", description |-> "d2"]}
ProjectLists == UNION {[1..m -> ProjectPool] : m \in 0..MaxProjects}
Thresholds == {0, 60, 100}
BatchSizes == (-2)..MaxProjects
BatchThresholds == {60}

ProjectDescriptions == {"", "rfp"}
SimilarityThresholds == {70}
FitThresholds == {0, 60}
SimilarityScores == {69, 70}
\* What the search can return: stored contexts (text and projectId metadata)
\* with a relevance score, at most `limit` of them.
Hits == {[projectId |-> p.id, text |-> p.description, score |-> s] :
           p \in ProjectPool, s \in SimilarityScores}
HitLists == UNION {[1..m -> Hits] : m \in 0..MaxHits}
\* The same for the statistics: up to MaxCandidates hits, all of them similar.
SimilarHitLists == {[j \in 1..m |-> [projectId |-> "p1", text |-> "d1", score |-> 70]] :
                      m \in 0..MaxCandidates}

\* The projects given to the stores.  An optional attribute is <<>> when it
\* is undefined and <<v>> when it has the value v.  Of the 18 optional
\* attributes, which the code copies one by one in the same way, the model
\* has title (also used for the context's title), agency and budget.
StorePool ==
  {[id |-> "p1", description |-> "d1", title |-> <<>>, agency |-> <<>>, budget |-> <<>>],
   [id |-> "p1", description |-> "d2", title |-> <<"T">>, agency |-> <<"GSA">>,
    budget |-> <<5>>],
   [id |-> "p2", description |-> "d2", title |-> <<"">>, agency |-> <<>>, budget |-> <<0>>]}
StoreLists == UNION {[1..m -> StorePool] : m \in 0..MaxBatch}
\* Up to MaxStored copies of one project.
RepeatedLists ==
  {[j \in 1..m |-> [id |-> "p1", description |-> "d1", title |-> <<>>, agency |-> <<>>,
                    budget |-> <<>>]] : m \in 0..MaxStored}
\* storeProject's second argument: left out, or a record of attributes.
StoreMetadata ==
  {[given |-> FALSE, title |-> <<>>, description |-> <<>>, agency |-> <<>>, budget |-> <<>>],
   [given |-> TRUE, title |-> <<"M">>, description |-> <<"md">>, agency |-> <<>>,
    budget |-> <<7>>]}
\* The requests of a batch of n that the store reports as failed: any of
\* them, or (for the long lists) the first f.
FailureSets(n, any) == IF any THEN SUBSET (1..n) ELSE {1..f : f \in 0..n}

\* matchProjectsWithKnowledgeBase: its thresholds, and hits with or without
\* a reasoning.
KbThresholds == {0, 70}
KbScores == {0, 69, 70}
KbHits == {[projectId |-> p.id, text |-> p.description, score |-> s,
            hasReasoning |-> r # "", reasoning |-> r] :
             p \in ProjectPool, s \in KbScores, r \in {"", "similar"}}
KbHitLists == UNION {[1..m -> KbHits] : m \in 0..MaxHits}

----------------------------------------------------------------------------
\* Replies of agent.ask: the call rejects (with an Error or with another
\* value), or it resolves with a text that JSON.parse rejects, or with a
\* JSON object holding some of the keys score, reasoning, matchedAreas.

AgentFailure == [kind |-> "callError", isError |-> TRUE, message |-> "agent unavailable",
                 hasScore |-> FALSE, score |-> 0, hasReasoning |-> FALSE,
                 reasoning |-> "", hasMatchedAreas |-> FALSE, matchedAreas |-> <<>>]
AgentThrewValue == [AgentFailure EXCEPT !.isError = FALSE, !.message = "rejected"]
MalformedJson == [AgentFailure EXCEPT !.kind = "malformed", !.message = "Unexpected token"]
EmptyJson == [AgentFailure EXCEPT !.kind = "json", !.message = ""]
ScoredJson(s) == [EmptyJson EXCEPT !.hasScore = TRUE, !.score = s, !.hasReasoning = TRUE,
                  !.reasoning = "aligned", !.hasMatchedAreas = TRUE,
                  !.matchedAreas = <<"React">>]

\* Replies of kb.searchContextsWithPrompt: the call rejects (with an Error or
\* with another value), or it resolves with the hits.
SearchFailure == [kind |-> "callError", isError |-> TRUE, message |-> "search unavailable"]
SearchThrewValue == [kind |-> "callError", isError |-> FALSE, message |-> "rejected"]
SearchFailures == {SearchFailure, SearchThrewValue}
Found(hits) == [kind |-> "hits", hits |-> hits]

\* Replies of kb.upsertKnowledgeBase and kb.upsertContext: the call rejects,
\* or it resolves.
StoreFailure == [kind |-> "callError", isError |-> TRUE, message |-> "store unavailable"]
StoreThrewValue == [kind |-> "callError", isError |-> FALSE, message |-> "rejected"]
StoreFailures == {StoreFailure, StoreThrewValue}
Stored == [kind |-> "resolved"]

AgentScores == {-5, 60, 150}
AgentReplies == {AgentFailure, AgentThrewValue, MalformedJson, EmptyJson}
                  \cup {ScoredJson(s) : s \in AgentScores}

----------------------------------------------------------------------------
\* Pure parts of the service.

\* buildMatchingPrompt: the template with the two texts embedded.
buildMatchingPrompt(companyProfile, projectDescription) ==
  [companyProfile |-> companyProfile, projectDescription |-> projectDescription]

\* (variant: the error's message is never used)
ErrorMessage_Unknown(reply) == "Unknown error"

\* `error instanceof Error ? error.message : 'Unknown error'`
ErrorMessage(reply) == IF reply.isError THEN reply.message ELSE "Unknown error"

\* (variant: the score is clamped to 0..100)
ScoreOrZero_Clamped(matchData) ==
  IF ~matchData.hasScore \/ matchData.score < 0 THEN 0
  ELSE IF matchData.score > 100 THEN 100 ELSE matchData.score

\* `matchData.score || 0`
ScoreOrZero(matchData) == IF matchData.hasScore /\ matchData.score # 0 THEN matchData.score ELSE 0

\* (variant: an exclusive comparison)
MeetsThreshold_Exclusive(score, threshold) == score > threshold

\* `(matchData.score || 0) >= threshold`
MeetsThreshold(score, threshold) == score >= threshold

\* The entry pushed for a project whose reply parsed.
ParsedEntry(project, matchData, threshold) ==
  [id |-> project.id,
   score |-> ScoreOrZero(matchData),
   isGoodFit |-> MeetsThreshold(ScoreOrZero(matchData), threshold),
   reasoning |-> IF matchData.hasReasoning /\ matchData.reasoning # ""
                 THEN <<matchData.reasoning>> ELSE <<"No reasoning provided">>,
   matchedAreas |-> IF matchData.hasMatchedAreas THEN matchData.matchedAreas ELSE <<>>]

\* (variant: the error's message is not put in the reasoning)
ErrorEntry_NoMessage(project, reply) ==
  [id |-> project.id,
   score |-> 0,
   isGoodFit |-> FALSE,
   reasoning |-> <<"Error processing: ", "Unknown error">>,
   matchedAreas |-> <<>>]

\* The entry pushed by the catch block of the loop.
ErrorEntry(project, reply) ==
  [id |-> project.id,
   score |-> 0,
   isGoodFit |-> FALSE,
   reasoning |-> <<"Error processing: ", ErrorMessage(reply)>>,
   matchedAreas |-> <<>>]

\* One turn of matchProjects' loop body, given the agent's reply: the try
\* block pushes the parsed entry, the catch block the error entry.
MatchEntry(project, reply, threshold) ==
  IF reply.kind = "json" THEN ParsedEntry(project, reply, threshold)
  ELSE ErrorEntry(project, reply)

\* (variant: the catch block pushes nothing)
ResultsAfter_DropFailed(res, project, reply, threshold) ==
  IF reply.kind = "json" THEN Append(res, ParsedEntry(project, reply, threshold)) ELSE res


ResultsAfter(res, project, reply, threshold) ==
  Append(res, MatchEntry(project, reply, threshold))

\* (variant: the test of the company profile is left out)
InvalidMatchArguments_NoProfileTest(companyProfile, given, projects) ==
  ~given \/ Len(projects) = 0

\* `!companyProfile || !projects || projects.length === 0`
InvalidMatchArguments(companyProfile, given, projects) ==
  companyProfile = "" \/ ~given \/ Len(projects) = 0

\* (variant: the comparator a.score - b.score)
InsertByScore_Ascending(sorted, e) ==
  LET n == Cardinality({j \in 1..Len(sorted) : sorted[j].score <= e.score})
  IN SubSeq(sorted, 1, n) \o <<e>> \o SubSeq(sorted, n + 1, Len(sorted))

\* (variant: a sort that is not stable; an element goes before the elements
\* of equal score)
InsertByScore_BeforeEqual(sorted, e) ==
  LET n == Cardinality({j \in 1..Len(sorted) : sorted[j].score > e.score})
  IN SubSeq(sorted, 1, n) \o <<e>> \o SubSeq(sorted, n + 1, Len(sorted))

\* Array.prototype.sort((a, b) => b.score - a.score): a stable sort, so an
\* element goes after every element whose score is not smaller.
InsertByScore(sorted, e) ==
  LET n == Cardinality({j \in 1..Len(sorted) : sorted[j].score >= e.score})
  IN SubSeq(sorted, 1, n) \o <<e>> \o SubSeq(sorted, n + 1, Len(sorted))

RECURSIVE SortByScoreDesc(_)
SortByScoreDesc(s) ==
  IF s = <<>> THEN <<>>
  ELSE InsertByScore(SortByScoreDesc(SubSeq(s, 1, Len(s) - 1)), s[Len(s)])

\* Array.prototype.slice(start, end) on a 0-based array: a negative index
\* counts from the end, and both are clamped to 0..length.
SliceIndex(len, n) == IF n < 0 THEN (IF len + n < 0 THEN 0 ELSE len + n)
                      ELSE (IF n > len THEN len ELSE n)
\* (variant: every slice starts at the first element)
Slice_FromStart(s, start, end) == SubSeq(s, 1, SliceIndex(Len(s), end))

Slice(s, start, end) == SubSeq(s, SliceIndex(Len(s), start) + 1, SliceIndex(Len(s), end))

----------------------------------------------------------------------------
\* matchProjects and matchProjectsBatch as functions of their arguments and
\* of an agent that answers by the prompt alone (`agent` maps prompts to
\* replies).

\* `results` after the first n turns of matchProjects' loop.
RECURSIVE MatchLoop(_, _, _, _, _)
MatchLoop(companyProfile, projects, threshold, agent, n) ==
  IF n = 0 THEN <<>>
  ELSE ResultsAfter(MatchLoop(companyProfile, projects, threshold, agent, n - 1),
                    projects[n],
                    agent[buildMatchingPrompt(companyProfile, projects[n].description)],
                    threshold)

MatchProjectsOf(companyProfile, given, projects, threshold, agent) ==
  IF InvalidMatchArguments(companyProfile, given, projects)
  THEN [kind |-> "threw", value |-> <<>>,
        message |-> "Company profile and projects list are required"]
  ELSE [kind |-> "returned",
        value |-> SortByScoreDesc(MatchLoop(companyProfile, projects, threshold, agent,
                                            Len(projects))),
        message |-> ""]

\* matchProjectsBatch from its test of `i < projects.length`, with `acc` the
\* results gathered so far.
RECURSIVE MatchProjectsBatchFrom(_, _, _, _, _, _, _)
MatchProjectsBatchFrom(companyProfile, projects, threshold, batchSize, agent, ii, acc) ==
  IF ii < Len(projects)
  THEN LET batchResults == MatchProjectsOf(companyProfile, TRUE,
                                            Slice(projects, ii, ii + batchSize),
                                            threshold, agent)
       IN IF batchResults.kind = "threw" THEN batchResults
          ELSE MatchProjectsBatchFrom(companyProfile, projects, threshold, batchSize, agent,
                                      ii + batchSize, acc \o batchResults.value)
  ELSE [kind |-> "returned", value |-> SortByScoreDesc(acc), message |-> ""]

MatchProjectsBatchOf(companyProfile, projects, threshold, batchSize, agent) ==
  MatchProjectsBatchFrom(companyProfile, projects, threshold, batchSize, agent, 0, <<>>)

----------------------------------------------------------------------------
\* Pure parts of isProjectGoodFitByKnowledgeBase.

\* (variant: an exclusive comparison with the similarity threshold)
IsRelevant_Exclusive(hit, similarityThreshold) == hit.score > similarityThreshold

\* `similarProjectResults.filter((result) => result.score >= similarityThreshold)`
IsRelevant(hit, similarityThreshold) == hit.score >= similarityThreshold
\* (variant: no hit is filtered out)
FilterRelevant_All(hits, similarityThreshold) == hits

FilterRelevant(hits, similarityThreshold) ==
  SelectSeq(hits, LAMBDA h : IsRelevant(h, similarityThreshold))

\* The entry pushed for a candidate whose reply parsed.
AnalysisEntry(similarProject, matchData, fitThreshold) ==
  [id |-> similarProject.projectId,
   similarity |-> similarProject.score,
   companyFitScore |-> ScoreOrZero(matchData),
   isCompanyFit |-> ScoreOrZero(matchData) >= fitThreshold]

\* (variant: the catch block records the candidate with a zero score, as
\* matchProjects does)
AnalysisAfter_ZeroFill(analysis, similarProject, reply, fitThreshold) ==
  IF reply.kind = "json" THEN Append(analysis, AnalysisEntry(similarProject, reply, fitThreshold))
  ELSE Append(analysis, AnalysisEntry(similarProject, EmptyJson, fitThreshold))

\* One turn of the candidates' loop: the entry is pushed, or the catch block
\* logs the error and pushes nothing.
AnalysisAfter(analysis, similarProject, reply, fitThreshold) ==
  IF reply.kind = "json" THEN Append(analysis, AnalysisEntry(similarProject, reply, fitThreshold))
  ELSE analysis

\* A number, and the number 0 / 0.
Num(n) == [nan |-> FALSE, n |-> n]
NaN == [nan |-> TRUE, n |-> 0]

\* Math.round(num / den) for den >= 0: the nearest integer, halves upwards;
\* the numerators here are 0 when the denominator is, and 0 / 0 is NaN.
RoundHalfUp(num, den) == IF den = 0 THEN NaN ELSE Num((2 * num + den) \div (2 * den))

\* `similarProjectsAnalysis.filter((p) => p.isCompanyFit).length`
GoodFitCount(analysis) == Cardinality({j \in 1..Len(analysis) : analysis[j].isCompanyFit})

\* (variant: only the scores of the company fits are summed)
RECURSIVE SumFitScores_GoodOnly(_)
SumFitScores_GoodOnly(analysis) ==
  IF analysis = <<>> THEN 0
  ELSE SumFitScores_GoodOnly(SubSeq(analysis, 1, Len(analysis) - 1))
         + (IF analysis[Len(analysis)].isCompanyFit
            THEN analysis[Len(analysis)].companyFitScore ELSE 0)

\* `similarProjectsAnalysis.reduce((sum, p) => sum + p.companyFitScore, 0)`
RECURSIVE SumFitScores(_)
SumFitScores(analysis) ==
  IF analysis = <<>> THEN 0
  ELSE SumFitScores(SubSeq(analysis, 1, Len(analysis) - 1))
         + analysis[Len(analysis)].companyFitScore

\* (variant: an exclusive comparison)
MajorityRule_Exclusive(goodFitProjects, totalSimilarProjects) ==
  totalSimilarProjects # 0 /\ goodFitProjects * 100 > 50 * totalSimilarProjects

\* `goodFitPercentage >= 50`, with goodFitPercentage = (good / total) * 100
\* (NaN >= 50 is false)
MajorityRule(goodFitProjects, totalSimilarProjects) ==
  totalSimilarProjects # 0 /\ goodFitProjects * 100 >= 50 * totalSimilarProjects

\* (variant: Math.floor in place of Math.round)
Confidence_Truncated(goodFitProjects, totalSimilarProjects) ==
  IF totalSimilarProjects = 0 THEN NaN
  ELSE Num((goodFitProjects * 100) \div totalSimilarProjects)

\* `Math.round(goodFitPercentage)`
Confidence(goodFitProjects, totalSimilarProjects) ==
  RoundHalfUp(goodFitProjects * 100, totalSimilarProjects)

\* generateFitReasoning: one of two sentences, with the rounded numbers in it.
generateFitReasoning(isGoodFit, goodFitProjects, sumFitScores, totalProjects) ==
  [text |-> IF isGoodFit THEN "This project is a GOOD FIT for your company."
            ELSE "This project may NOT be a good fit for your company.",
   totalProjects |-> totalProjects,
   goodFitProjects |-> goodFitProjects,
   percentage |-> RoundHalfUp(goodFitProjects * 100, totalProjects),
   avgScore |-> RoundHalfUp(sumFitScores, totalProjects)]

ShortCircuitReasoning(text) ==
  [text |-> text, totalProjects |-> 0, goodFitProjects |-> 0, percentage |-> Num(0),
   avgScore |-> Num(0)]

\* The result of both short circuits, apart from its reasoning.
EmptyAnalysis(text) ==
  [isGoodFit |-> FALSE,
   confidence |-> Num(0),
   reasoning |-> ShortCircuitReasoning(text),
   similarProjects |-> <<>>,
   statistics |-> [totalSimilarProjects |-> 0, goodFitProjects |-> 0,
                   goodFitPercentage |-> Num(0), averageFitScore |-> Num(0)]]

NoSimilarProjects ==
  EmptyAnalysis("No similar projects found in knowledge base to make a comparison.")
\* (variant: the message of the other short circuit)
UnableToAnalyze_SameMessage ==
  EmptyAnalysis("No similar projects found in knowledge base to make a comparison.")


UnableToAnalyze ==
  EmptyAnalysis("Unable to analyze similar projects. No similar projects could be successfully processed.")

\* Steps 3 to 5 for a non-empty list of scored candidates.  The two rounded
\* statistics are in hundredths.
Aggregate(analysis) ==
  LET totalSimilarProjects == Len(analysis)
      goodFitProjects == GoodFitCount(analysis)
      sumFitScores == SumFitScores(analysis)
      isGoodFit == MajorityRule(goodFitProjects, totalSimilarProjects)
  IN [isGoodFit |-> isGoodFit,
      confidence |-> Confidence(goodFitProjects, totalSimilarProjects),
      reasoning |-> generateFitReasoning(isGoodFit, goodFitProjects, sumFitScores,
                                         totalSimilarProjects),
      similarProjects |-> analysis,
      statistics |-> [totalSimilarProjects |-> totalSimilarProjects,
                      goodFitProjects |-> goodFitProjects,
                      goodFitPercentage |->
                        RoundHalfUp(goodFitProjects * 100 * 100, totalSimilarProjects),
                      averageFitScore |->
                        RoundHalfUp(sumFitScores * 100, totalSimilarProjects)]]

\* (variant: no test of the number of scored candidates)
FitVerdict_NoGuard(analysis) == Aggregate(analysis)

\* The code from the end of the candidates' loop to its return.
FitVerdict(analysis) ==
  IF Len(analysis) = 0 THEN UnableToAnalyze ELSE Aggregate(analysis)

----------------------------------------------------------------------------
\* Pure parts of matchProjectsWithKnowledgeBase.

KNOWLEDGE_BASE_ID == "projects-kb"

technologies == <<"React", "Node.js", "TypeScript", "Python", "AWS", "PostgreSQL", "MongoDB",
                  "GraphQL", "Docker", "Kubernetes">>

\* The technologies `tech` with text.toLowerCase().includes(tech.toLowerCase()),
\* for the texts of the model: "d1" stands for a description that names React
\* and AWS, "acme" for a profile that names AWS, Docker and React; the other
\* texts name none.
Mentions(text) ==
  CASE text = "d1" -> {"React", "AWS"}
    [] text = "acme" -> {"AWS", "Docker", "React"}
    [] OTHER -> {}

\* (variant: no fallback element)
extractMatchedAreas_NoFallback(projectDescription, companyProfile) ==
  SelectSeq(technologies,
            LAMBDA tech : /\ tech \in Mentions(projectDescription)
                          /\ tech \in Mentions(companyProfile))

extractMatchedAreas(projectDescription, companyProfile) ==
  LET areas == SelectSeq(technologies,
                         LAMBDA tech : /\ tech \in Mentions(projectDescription)
                                       /\ tech \in Mentions(companyProfile))
  IN IF Len(areas) > 0 THEN areas ELSE <<"General capabilities match">>

\* (variant: the company profile is never found missing)
MissingCompanyProfile_Never(companyProfile) == FALSE

\* `!companyProfile`
MissingCompanyProfile(companyProfile) == companyProfile = ""

\* (variant: the default threshold in place of the argument)
KbEntry_DefaultThreshold(result, companyProfile, threshold) ==
  [id |-> result.projectId,
   score |-> result.score,
   isGoodFit |-> result.score >= 60,
   reasoning |-> IF result.hasReasoning /\ result.reasoning # ""
                 THEN <<result.reasoning>> ELSE <<"No reasoning provided">>,
   matchedAreas |-> extractMatchedAreas(result.text, companyProfile)]

\* The MatchingResult made of one hit of the search.
KbEntry(result, companyProfile, threshold) ==
  [id |-> result.projectId,
   score |-> result.score,
   isGoodFit |-> result.score >= threshold,
   reasoning |-> IF result.hasReasoning /\ result.reasoning # ""
                 THEN <<result.reasoning>> ELSE <<"No reasoning provided">>,
   matchedAreas |-> extractMatchedAreas(result.text, companyProfile)]

\* `results.map(...)`
matchingResults(hits, companyProfile, threshold) ==
  [j \in 1..Len(hits) |-> KbEntry(hits[j], companyProfile, threshold)]

----------------------------------------------------------------------------
\* Pure parts of storeProject and storeProjects, and the knowledge base's
\* upsert.

\* `title || \`Project ${project.id}\``
TitleOrDefault(title, id) ==
  IF title = <<>> \/ title = <<"">> THEN <<"Project ", id>> ELSE title

\* `metadata?.field`
Optional(metadata, field) == IF metadata.given THEN metadata[field] ELSE <<>>

\* The argument of kb.upsertContext in storeProject.
upsertContextRequest(project, metadata, addedAt) ==
  [contextId |-> project.id,
   type |-> "text",
   title |-> TitleOrDefault(Optional(metadata, "title"), project.id),
   text |-> project.description,
   metadata |-> [projectId |-> project.id,
                 title |-> Optional(metadata, "title"),
                 description |-> Optional(metadata, "description"),
                 agency |-> Optional(metadata, "agency"),
                 budget |-> Optional(metadata, "budget"),
                 addedAt |-> addedAt]]

\* (variant: the context is keyed by the project's text)
contextRequest_KeyedByText(project, addedAt) ==
  [contextId |-> project.description,
   type |-> "text",
   title |-> TitleOrDefault(project.title, project.id),
   text |-> project.description,
   metadata |-> [projectId |-> project.id,
                 title |-> project.title,
                 description |-> <<project.description>>,
                 agency |-> project.agency,
                 budget |-> project.budget,
                 addedAt |-> addedAt]]

\* One element of `contextRequests` in storeProjects.
contextRequest(project, addedAt) ==
  [contextId |-> project.id,
   type |-> "text",
   title |-> TitleOrDefault(project.title, project.id),
   text |-> project.description,
   metadata |-> [projectId |-> project.id,
                 title |-> project.title,
                 description |-> <<project.description>>,
                 agency |-> project.agency,
                 budget |-> project.budget,
                 addedAt |-> addedAt]]

contextRequests(projects, addedAt) ==
  [j \in 1..Len(projects) |-> contextRequest(projects[j], addedAt)]

\* (variant: the search keeps its request in the knowledge base)
Searched_Recording(kb, request) == kb \cup {request}

\* kb.searchContextsWithPrompt: a read; the contexts of the knowledge base
\* after the call are those before it.
Searched(kb, request) == kb

\* (variant: the store adds a context whatever it holds)
Upsert_Insert(contexts, request) == contexts \cup {request}

\* The knowledge base's upsert of one context: the context with this
\* contextId is replaced, or added when there is none.
Upsert(contexts, request) ==
  {c \in contexts : c.contextId # request.contextId} \cup {request}

\* The elements of a batch that did not fail, in order.
RECURSIVE Written(_, _)
Written(s, failures) ==
  IF s = <<>> THEN <<>>
  ELSE LET front == Written(SubSeq(s, 1, Len(s) - 1), failures)
       IN IF Len(s) \in failures THEN front ELSE Append(front, s[Len(s)])

\* The knowledge base's batch upsert: one upsert per request, in order.
RECURSIVE UpsertAll(_, _)
UpsertAll(contexts, requests) ==
  IF requests = <<>> THEN contexts
  ELSE Upsert(UpsertAll(contexts, SubSeq(requests, 1, Len(requests) - 1)),
              requests[Len(requests)])

\* `response.failures?.length || 0`
FailureCount(response) ==
  IF response.failuresGiven THEN Cardinality(response.failures) ELSE 0

\* (variant: every project is counted as stored)
SuccessCount_All(total, failureCount) == total

\* `projects.length - failureCount`
SuccessCount(total, failureCount) == total - failureCount

\* storeProjects' result after kb.upsertContexts resolved.
StoreProjectsResult(projects, response) ==
  LET failureCount == FailureCount(response)
      successCount == SuccessCount(Len(projects), failureCount)
  IN [success |-> failureCount = 0,
      message |-> IF failureCount = 0
                  THEN <<"All ", successCount, " projects stored successfully">>
                  ELSE <<successCount, " projects stored, ", failureCount, " failed">>,
      successCount |-> successCount,
      failureCount |-> failureCount]

\* storeProjects' result from its catch block.
StoreProjectsFailed(projects, reply) ==
  [success |-> FALSE,
   message |-> <<"Failed to store projects: ", ErrorMessage(reply)>>,
   successCount |-> 0,
   failureCount |-> Len(projects)]

\* lastStored after the projects of `written` were stored, in order.
RECURSIVE Remember(_, _)
Remember(last, written) ==
  IF written = <<>> THEN last
  ELSE LET before == Remember(last, SubSeq(written, 1, Len(written) - 1))
           project == written[Len(written)]
       IN [id \in DOMAIN before \cup {project.id} |->
             IF id = project.id
             THEN [project |-> project, again |-> project.id \in DOMAIN before]
             ELSE before[id]]

\* `new Date()`: the clock has gone on since it was last read, or it has not.
Instants == {t \in {now, now + 1} : t <= MaxTime}

----------------------------------------------------------------------------
\* Steps shared by the actions.

NoOutcome == [kind |-> "none", value |-> <<>>, message |-> ""]

Throw(msg) ==
  /\ pc' = "done"
  /\ outcome' = [kind |-> "threw", value |-> <<>>, message |-> msg]

Return(value) ==
  /\ pc' = "done"
  /\ outcome' = [kind |-> "returned", value |-> value, message |-> ""]

\* agent.ask(prompt, ...) is issued with `inflight` calls still unanswered.
AskAgent(prompt, inflight) ==
  /\ pc' = "await_agent"
  /\ agentLog' = Append(agentLog, prompt)
  /\ outstanding' = inflight + 1
  /\ UNCHANGED outcome

\* matchProjects from its first line to its first agent.ask.
MatchProjectsBegin(companyProfile, given, projects, inflight) ==
  IF InvalidMatchArguments(companyProfile, given, projects)
  THEN /\ Throw("Company profile and projects list are required")
       /\ outstanding' = inflight
       /\ UNCHANGED <<matchVars, agentLog>>
  ELSE /\ batch' = projects
       /\ k' = 1
       /\ results' = <<>>
       /\ AskAgent(buildMatchingPrompt(companyProfile, projects[1].description), inflight)

\* (variant: every chunk's call is given the whole list)
BatchLoop_WholeListPerChunk(a, ii, acc, inflight) ==
  /\ i' = ii
  /\ resultsBatch' = acc
  /\ IF ii < Len(a.projects)
     THEN MatchProjectsBegin(a.companyProfile, TRUE, a.projects, inflight)
     ELSE /\ Return(SortByScoreDesc(acc))
          /\ outstanding' = inflight
          /\ UNCHANGED <<matchVars, agentLog>>

\* matchProjectsBatch's loop from its test of `i < projects.length`, with the
\* results gathered so far, to the first agent.ask of the next chunk.
BatchLoop(a, ii, acc, inflight) ==
  /\ i' = ii
  /\ resultsBatch' = acc
  /\ IF ii < Len(a.projects)
     THEN MatchProjectsBegin(a.companyProfile, TRUE,
                             Slice(a.projects, ii, ii + a.batchSize), inflight)
     ELSE /\ Return(SortByScoreDesc(acc))
          /\ outstanding' = inflight
          /\ UNCHANGED <<matchVars, agentLog>>

----------------------------------------------------------------------------
\* The invocations that can be in progress at once.
Invocations == {1, 2}

\* An invocation that has not been made: the variables as Init and Respond
\* leave them.
IdleFrame ==
  [op |-> "idle", pc |-> "idle", args |-> <<>>, batch |-> <<>>, k |-> 0, results |-> <<>>,
   i |-> 0, resultsBatch |-> <<>>, similarProjectResults |-> <<>>,
   relevantSimilarProjects |-> <<>>, similarProjectsAnalysis |-> <<>>,
   outcome |-> NoOutcome, agentLog |-> <<>>, searchLog |-> <<>>, replyLog |-> <<>>,
   outstanding |-> 0, searchReplies |-> <<>>, storeLog |-> <<>>, storeReplies |-> <<>>]

\* (variant: `results` and `similarProjectsAnalysis` are fields of the service
\* object, one for all invocations, and not part of an invocation's own state)
Frame_SharedLists ==
  [op |-> op, pc |-> pc, args |-> args, batch |-> batch, k |-> k,
   i |-> i, resultsBatch |-> resultsBatch, similarProjectResults |-> similarProjectResults,
   relevantSimilarProjects |-> relevantSimilarProjects,
   outcome |-> outcome, agentLog |-> agentLog, searchLog |-> searchLog,
   replyLog |-> replyLog, outstanding |-> outstanding, searchReplies |-> searchReplies,
   storeLog |-> storeLog, storeReplies |-> storeReplies]

\* What an invocation keeps while it waits at an `await`: its parameters and
\* the `const` and `let` locals of its method (among them `results` and
\* `similarProjectsAnalysis`), and where it stands.  The service object has
\* one field, the readonly KNOWLEDGE_BASE_ID.
Frame ==
  [op |-> op, pc |-> pc, args |-> args, batch |-> batch, k |-> k, results |-> results,
   i |-> i, resultsBatch |-> resultsBatch, similarProjectResults |-> similarProjectResults,
   relevantSimilarProjects |-> relevantSimilarProjects,
   similarProjectsAnalysis |-> similarProjectsAnalysis,
   outcome |-> outcome, agentLog |-> agentLog, searchLog |-> searchLog,
   replyLog |-> replyLog, outstanding |-> outstanding, searchReplies |-> searchReplies,
   storeLog |-> storeLog, storeReplies |-> storeReplies]

\* The value of a variable when the invocation with frame f goes on: its own
\* if the frame keeps one, the present one otherwise.
Restored(f, name, present) == IF name \in DOMAIN f THEN f[name] ELSE present

Init ==
  /\ current = 1
  /\ suspended = [c \in Invocations |-> IdleFrame]
  /\ op = "idle"
  /\ pc = "idle"
  /\ args = <<>>
  /\ batch = <<>>
  /\ k = 0
  /\ results = <<>>
  /\ i = 0
  /\ resultsBatch = <<>>
  /\ similarProjectResults = <<>>
  /\ relevantSimilarProjects = <<>>
  /\ similarProjectsAnalysis = <<>>
  /\ outcome = NoOutcome
  /\ agentLog = <<>>
  /\ searchLog = <<>>
  /\ replyLog = <<>>
  /\ outstanding = 0
  /\ searchReplies = <<>>
  /\ storeLog = <<>>
  /\ storeReplies = <<>>
  /\ corpus = {}
  /\ knowledgeBase = "absent"
  /\ lastStored = <<>>
  /\ now = 0

\* A client invokes matchProjects(companyProfile, projects, agentId, threshold).
CallMatchProjects ==
  /\ pc = "idle"
  /\ \E cp \in Profiles, ps \in ProjectLists, given \in BOOLEAN, t \in Thresholds :
       /\ given \/ ps = <<>>
       /\ op' = "matchProjects"
       /\ args' = [companyProfile |-> cp, projectsGiven |-> given, projects |-> ps,
                   threshold |-> t]
       /\ MatchProjectsBegin(cp, given, ps, 0)
  /\ UNCHANGED <<batchVars, fitVars, searchLog, replyLog, searchReplies, storeVars>>
  /\ UNCHANGED schedVars

\* A client invokes matchProjectsBatch(companyProfile, projects, agentId,
\* threshold, batchSize).
CallMatchProjectsBatch ==
  /\ pc = "idle"
  /\ \E cp \in Profiles, ps \in ProjectLists, given \in BOOLEAN, t \in BatchThresholds,
        bs \in BatchSizes :
       LET a == [companyProfile |-> cp, projectsGiven |-> given, projects |-> ps,
                 threshold |-> t, batchSize |-> bs]
       IN /\ given \/ ps = <<>>
          /\ op' = "matchProjectsBatch"
          /\ args' = a
          /\ IF given
             THEN BatchLoop(a, 0, <<>>, 0)
             ELSE /\ Throw("Cannot read properties of undefined (reading 'length')")
                  /\ UNCHANGED <<matchVars, batchVars, agentLog, outstanding>>
  /\ UNCHANGED <<fitVars, searchLog, replyLog, searchReplies, storeVars>>
  /\ UNCHANGED schedVars

\* agent.ask settles inside matchProjects' loop: the entry is pushed, and the
\* loop goes on to the next project, or the sorted list is returned (to the
\* client, or to matchProjectsBatch, which goes on with its own loop).
AgentReplyMatch ==
  /\ pc = "await_agent"
  /\ op \in {"matchProjects", "matchProjectsBatch"}
  /\ \E reply \in AgentReplies :
       LET pushed == ResultsAfter(results, batch[k], reply, args.threshold)
       IN /\ replyLog' = Append(replyLog, reply)
          /\ IF k < Len(batch)
             THEN /\ results' = pushed
                  /\ k' = k + 1
                  /\ AskAgent(buildMatchingPrompt(args.companyProfile, batch[k + 1].description),
                              outstanding - 1)
                  /\ UNCHANGED <<batch, batchVars>>
             ELSE IF op = "matchProjects"
             THEN /\ results' = pushed
                  /\ k' = k + 1
                  /\ Return(SortByScoreDesc(pushed))
                  /\ outstanding' = outstanding - 1
                  /\ UNCHANGED <<batch, batchVars, agentLog>>
             ELSE BatchLoop(args, i + args.batchSize,
                            resultsBatch \o SortByScoreDesc(pushed), outstanding - 1)
  /\ UNCHANGED <<op, args, fitVars, searchLog, searchReplies, storeVars>>
  /\ UNCHANGED schedVars

\* A client invokes isProjectGoodFitByKnowledgeBase(projectDescription,
\* companyProfile, similarityThreshold, fitThreshold, limitSimilar): the
\* arguments are checked and the search is issued.
CallIsProjectGoodFit(limits) ==
  /\ pc = "idle"
  /\ \E pd \in ProjectDescriptions, cp \in Profiles, st \in SimilarityThresholds,
        ft \in FitThresholds, limit \in limits :
       /\ op' = "isProjectGoodFitByKnowledgeBase"
       /\ args' = [projectDescription |-> pd, companyProfile |-> cp,
                   similarityThreshold |-> st, fitThreshold |-> ft, limitSimilar |-> limit]
       /\ IF pd = "" \/ cp = ""
          THEN /\ Throw("Project description and company profile are required")
               /\ UNCHANGED <<searchLog, outstanding>>
          ELSE /\ pc' = "await_search"
               /\ searchLog' = Append(searchLog, [prompt |-> pd, limit |-> limit, rerank |-> TRUE])
               /\ outstanding' = outstanding + 1
               /\ UNCHANGED outcome
  /\ UNCHANGED <<matchVars, batchVars, fitVars, agentLog, replyLog, searchReplies, storeVars>>
  /\ UNCHANGED schedVars

\* The search settles: it fails, and the outer catch rethrows; or it returns
\* hits, which are filtered, and the first candidate is sent to the agent.
SearchReplyFit(hitLists) ==
  /\ pc = "await_search"
  /\ op = "isProjectGoodFitByKnowledgeBase"
  /\ \/ \E failure \in SearchFailures :
          /\ searchReplies' = Append(searchReplies, failure)
          /\ Throw(<<"Failed to check project fit: ", ErrorMessage(failure)>>)
          /\ outstanding' = outstanding - 1
          /\ UNCHANGED <<fitVars, k, agentLog>>
     \/ \E hits \in hitLists :
          LET relevant == FilterRelevant(hits, args.similarityThreshold)
          IN /\ Len(hits) <= args.limitSimilar
             /\ searchReplies' = Append(searchReplies, Found(hits))
             /\ similarProjectResults' = hits
             /\ relevantSimilarProjects' = relevant
             /\ similarProjectsAnalysis' = <<>>
             /\ IF Len(relevant) = 0
                THEN /\ Return(NoSimilarProjects)
                     /\ outstanding' = outstanding - 1
                     /\ UNCHANGED <<k, agentLog>>
                ELSE /\ k' = 1
                     /\ AskAgent(buildMatchingPrompt(args.companyProfile, relevant[1].text),
                                 outstanding - 1)
  /\ corpus' = Searched(corpus, searchLog[1])
  /\ UNCHANGED <<op, args, batch, results, batchVars, searchLog, replyLog, storeLog,
                 storeReplies, knowledgeBase, lastStored, now>>
  /\ UNCHANGED schedVars

\* agent.ask settles inside the candidates' loop: the candidate is recorded
\* or dropped, and the loop goes on, or the verdict is returned.
AgentReplyFit(replies) ==
  /\ pc = "await_agent"
  /\ op = "isProjectGoodFitByKnowledgeBase"
  /\ \E reply \in replies :
       LET analysis == AnalysisAfter(similarProjectsAnalysis, relevantSimilarProjects[k],
                                     reply, args.fitThreshold)
       IN /\ replyLog' = Append(replyLog, reply)
          /\ similarProjectsAnalysis' = analysis
          /\ k' = k + 1
          /\ IF k < Len(relevantSimilarProjects)
             THEN AskAgent(buildMatchingPrompt(args.companyProfile,
                                               relevantSimilarProjects[k + 1].text),
                           outstanding - 1)
             ELSE /\ Return(FitVerdict(analysis))
                  /\ outstanding' = outstanding - 1
                  /\ UNCHANGED agentLog
  /\ UNCHANGED <<op, args, batch, results, batchVars, similarProjectResults,
                 relevantSimilarProjects, searchLog, searchReplies, storeVars>>
  /\ UNCHANGED schedVars

\* A client invokes matchProjectsWithKnowledgeBase(companyProfile, limit,
\* threshold): the profile is checked and the search is issued.
CallMatchProjectsWithKnowledgeBase(limits) ==
  /\ pc = "idle"
  /\ \E cp \in Profiles, limit \in limits, t \in KbThresholds :
       /\ op' = "matchProjectsWithKnowledgeBase"
       /\ args' = [companyProfile |-> cp, limit |-> limit, threshold |-> t]
       /\ IF MissingCompanyProfile(cp)
          THEN /\ Throw("Company profile is required")
               /\ UNCHANGED <<searchLog, outstanding>>
          ELSE /\ pc' = "await_search"
               /\ searchLog' = Append(searchLog, [prompt |-> cp, limit |-> limit, rerank |-> TRUE])
               /\ outstanding' = outstanding + 1
               /\ UNCHANGED outcome
  /\ UNCHANGED <<matchVars, batchVars, fitVars, agentLog, replyLog, searchReplies, storeVars>>
  /\ UNCHANGED schedVars

\* The search settles: it fails, and the catch block throws the wrapped error;
\* or its hits are mapped to entries and returned, sorted.
SearchReplyKb(hitLists) ==
  /\ pc = "await_search"
  /\ op = "matchProjectsWithKnowledgeBase"
  /\ \/ \E failure \in SearchFailures :
          /\ searchReplies' = Append(searchReplies, failure)
          /\ Throw(<<"Failed to match projects: ", ErrorMessage(failure)>>)
     \/ \E hits \in hitLists :
          /\ Len(hits) <= args.limit
          /\ searchReplies' = Append(searchReplies, Found(hits))
          /\ Return(SortByScoreDesc(matchingResults(hits, args.companyProfile, args.threshold)))
  /\ outstanding' = outstanding - 1
  /\ corpus' = Searched(corpus, searchLog[1])
  /\ UNCHANGED <<op, args, matchVars, batchVars, fitVars, agentLog, searchLog, replyLog,
                 storeLog, storeReplies, knowledgeBase, lastStored, now>>
  /\ UNCHANGED schedVars

\* A client invokes initializeKnowledgeBase(): the definition of the knowledge
\* base is sent to the store.
CallInitializeKnowledgeBase ==
  /\ pc = "idle"
  /\ op' = "initializeKnowledgeBase"
  /\ args' = <<>>
  /\ pc' = "await_store"
  /\ storeLog' = Append(storeLog, [call |-> "upsertKnowledgeBase",
                                    knowledgeBaseId |-> KNOWLEDGE_BASE_ID])
  /\ outstanding' = outstanding + 1
  /\ UNCHANGED <<matchVars, batchVars, fitVars, outcome, agentLog, searchLog, replyLog,
                 searchReplies, storeReplies, corpus, knowledgeBase, lastStored, now>>
  /\ UNCHANGED schedVars

\* kb.upsertKnowledgeBase settles: the result object says which way.
StoreReplyInit ==
  /\ pc = "await_store"
  /\ op = "initializeKnowledgeBase"
  /\ \E reply \in StoreFailures \cup {Stored} :
       /\ storeReplies' = Append(storeReplies, reply)
       /\ IF reply.kind = "resolved"
          THEN /\ knowledgeBase' = "defined"
               /\ Return([success |-> TRUE,
                           message |-> <<"Knowledge base initialized successfully">>])
          ELSE /\ UNCHANGED knowledgeBase
               /\ Return([success |-> FALSE,
                           message |-> <<"Failed to initialize knowledge base: ",
                                         ErrorMessage(reply)>>])
  /\ outstanding' = outstanding - 1
  /\ UNCHANGED <<op, args, matchVars, batchVars, fitVars, agentLog, searchLog, replyLog,
                 searchReplies, storeLog, corpus, lastStored, now>>
  /\ UNCHANGED schedVars

\* A client invokes storeProject(project, metadata): the context is sent to
\* the store.
CallStoreProject ==
  /\ pc = "idle"
  /\ \E project \in StorePool, metadata \in StoreMetadata, t \in Instants :
       /\ op' = "storeProject"
       /\ args' = [project |-> project, metadata |-> metadata]
       /\ now' = t
       /\ storeLog' = Append(storeLog,
                              [call |-> "upsertContext",
                               requests |-> <<upsertContextRequest(project, metadata, t)>>])
  /\ pc' = "await_store"
  /\ outstanding' = outstanding + 1
  /\ UNCHANGED <<matchVars, batchVars, fitVars, outcome, agentLog, searchLog, replyLog,
                 searchReplies, storeReplies, corpus, knowledgeBase, lastStored>>
  /\ UNCHANGED schedVars

\* kb.upsertContext settles: the context is in the knowledge base, or the
\* call failed and the knowledge base is as it was; the result object says
\* which.
StoreReplyOne ==
  /\ pc = "await_store"
  /\ op = "storeProject"
  /\ \E reply \in StoreFailures \cup {Stored} :
       /\ storeReplies' = Append(storeReplies, reply)
       /\ IF reply.kind = "resolved"
          THEN /\ corpus' = Upsert(corpus, storeLog[1].requests[1])
               /\ lastStored' = Remember(lastStored, <<args.project>>)
               /\ Return([success |-> TRUE,
                           message |-> <<"Project ", args.project.id, " stored successfully">>])
          ELSE /\ UNCHANGED <<corpus, lastStored>>
               /\ Return([success |-> FALSE,
                           message |-> <<"Failed to store project: ", ErrorMessage(reply)>>])
  /\ outstanding' = outstanding - 1
  /\ UNCHANGED <<op, args, matchVars, batchVars, fitVars, agentLog, searchLog, replyLog,
                 searchReplies, storeLog, knowledgeBase, now>>
  /\ UNCHANGED schedVars

\* A client invokes storeProjects(projects): the contexts are sent to the
\* store in one call.
CallStoreProjects(lists) ==
  /\ pc = "idle"
  /\ \E projects \in lists, t \in Instants :
       /\ op' = "storeProjects"
       /\ args' = [projects |-> projects]
       /\ now' = t
       /\ storeLog' = Append(storeLog, [call |-> "upsertContexts",
                                         requests |-> contextRequests(projects, t)])
  /\ pc' = "await_store"
  /\ outstanding' = outstanding + 1
  /\ UNCHANGED <<matchVars, batchVars, fitVars, outcome, agentLog, searchLog, replyLog,
                 searchReplies, storeReplies, corpus, knowledgeBase, lastStored>>
  /\ UNCHANGED schedVars

\* kb.upsertContexts settles: it failed as a whole, or it resolves with a
\* response that lists the requests that failed (or has no such list); the
\* others are in the knowledge base.
StoreReplyMany(any) ==
  /\ pc = "await_store"
  /\ op = "storeProjects"
  /\ \/ \E reply \in StoreFailures :
          /\ storeReplies' = Append(storeReplies, reply)
          /\ Return(StoreProjectsFailed(args.projects, reply))
          /\ UNCHANGED <<corpus, lastStored>>
     \/ \E failures \in FailureSets(Len(args.projects), any), failuresGiven \in BOOLEAN :
          LET response == [kind |-> "resolved", failuresGiven |-> failuresGiven,
                           failures |-> failures]
          IN /\ failuresGiven \/ failures = {}
             /\ storeReplies' = Append(storeReplies, response)
             /\ corpus' = UpsertAll(corpus, Written(storeLog[1].requests, failures))
             /\ lastStored' = Remember(lastStored, Written(args.projects, failures))
             /\ Return(StoreProjectsResult(args.projects, response))
  /\ outstanding' = outstanding - 1
  /\ UNCHANGED <<op, args, matchVars, batchVars, fitVars, agentLog, searchLog, replyLog,
                 searchReplies, storeLog, knowledgeBase, now>>
  /\ UNCHANGED schedVars

\* The event loop goes on with another invocation: the one that ran stays at
\* its await (or at its end), and invocation c runs from where it stood.  The
\* knowledge base and the clock are not the invocations'.
Resume ==
  \E c \in Invocations \ {current} :
    LET f == suspended[c]
    IN /\ current' = c
       /\ suspended' = [suspended EXCEPT ![current] = Frame, ![c] = IdleFrame]
       /\ op' = Restored(f, "op", op)
       /\ pc' = Restored(f, "pc", pc)
       /\ args' = Restored(f, "args", args)
       /\ batch' = Restored(f, "batch", batch)
       /\ k' = Restored(f, "k", k)
       /\ results' = Restored(f, "results", results)
       /\ i' = Restored(f, "i", i)
       /\ resultsBatch' = Restored(f, "resultsBatch", resultsBatch)
       /\ similarProjectResults' = Restored(f, "similarProjectResults", similarProjectResults)
       /\ relevantSimilarProjects' =
            Restored(f, "relevantSimilarProjects", relevantSimilarProjects)
       /\ similarProjectsAnalysis' =
            Restored(f, "similarProjectsAnalysis", similarProjectsAnalysis)
       /\ outcome' = Restored(f, "outcome", outcome)
       /\ agentLog' = Restored(f, "agentLog", agentLog)
       /\ searchLog' = Restored(f, "searchLog", searchLog)
       /\ replyLog' = Restored(f, "replyLog", replyLog)
       /\ outstanding' = Restored(f, "outstanding", outstanding)
       /\ searchReplies' = Restored(f, "searchReplies", searchReplies)
       /\ storeLog' = Restored(f, "storeLog", storeLog)
       /\ storeReplies' = Restored(f, "storeReplies", storeReplies)
       /\ UNCHANGED <<corpus, knowledgeBase, lastStored, now>>

\* The outcome is delivered to the client and the service is idle again.
Respond ==
  /\ pc = "done"
  /\ op' = "idle"
  /\ pc' = "idle"
  /\ args' = <<>>
  /\ batch' = <<>>
  /\ k' = 0
  /\ results' = <<>>
  /\ i' = 0
  /\ resultsBatch' = <<>>
  /\ similarProjectResults' = <<>>
  /\ relevantSimilarProjects' = <<>>
  /\ similarProjectsAnalysis' = <<>>
  /\ outcome' = NoOutcome
  /\ agentLog' = <<>>
  /\ searchLog' = <<>>
  /\ replyLog' = <<>>
  /\ outstanding' = 0
  /\ searchReplies' = <<>>
  /\ storeLog' = <<>>
  /\ storeReplies' = <<>>
  /\ UNCHANGED <<corpus, knowledgeBase, lastStored, now>>
  /\ UNCHANGED schedVars

Next == CallMatchProjects \/ AgentReplyMatch \/ Respond

Spec == Init /\ [][Next]_vars

NextBatch == CallMatchProjectsBatch \/ AgentReplyMatch \/ Respond

SpecBatch == Init /\ [][NextBatch]_vars

\* agent.ask settles: its reply, or its failure, reaches the invocation that
\* awaits it (the step AgentReplyMatch takes then).
AgentSettles ==
  /\ pc = "await_agent"
  /\ \E reply \in AgentReplies : replyLog' = Append(replyLog, reply)

\* matchProjectsBatch with an agent that settles every call: agent.ask
\* returns or fails, it does not hang.
SpecBatchFair == Init /\ [][NextBatch]_vars /\ WF_replyLog(AgentSettles)

\* The fit analyzer, with every kind of hit and of reply.
NextFit ==
  CallIsProjectGoodFit({MaxHits}) \/ SearchReplyFit(HitLists) \/ AgentReplyFit(AgentReplies)
    \/ Respond

SpecFit == Init /\ [][NextFit]_vars

\* The fit analyzer with up to MaxCandidates similar hits, each scored as a
\* fit, scored as no fit, or dropped.
StatReplies == {ScoredJson(60), ScoredJson(-5), MalformedJson}

\* kb.searchContextsWithPrompt settles: its hits, or its failure, reach the
\* invocation that awaits it (the step SearchReplyFit takes then).
SearchSettles ==
  /\ pc = "await_search"
  /\ \E reply \in SearchFailures \cup {Found(hits) : hits \in HitLists} :
       searchReplies' = Append(searchReplies, reply)

\* The fit analyzer with a knowledge base and an agent that settle every
\* call.
SpecFitFair ==
  Init /\ [][NextFit]_vars /\ WF_searchReplies(SearchSettles) /\ WF_replyLog(AgentSettles)

NextFitStats ==
  CallIsProjectGoodFit({MaxCandidates}) \/ SearchReplyFit(SimilarHitLists)
    \/ AgentReplyFit(StatReplies) \/ Respond

SpecFitStats == Init /\ [][NextFitStats]_vars

\* The fit analyzer with a limitSimilar of LargeLimit and as many similar
\* hits.  The statistics count the fits, whatever their places, so the agent
\* here scores as fits a first part of the candidates and as no fits the
\* rest.
LargeHitLists ==
  {[j \in 1..m |-> [projectId |-> "p1", text |-> "d1", score |-> 70]] : m \in {0, LargeLimit}}

FitsFirstReplies ==
  IF replyLog = <<>> \/ replyLog[Len(replyLog)].score = 60
  THEN {ScoredJson(60), ScoredJson(-5)}
  ELSE {ScoredJson(-5)}

NextFitLarge ==
  CallIsProjectGoodFit({LargeLimit}) \/ SearchReplyFit(LargeHitLists)
    \/ AgentReplyFit(FitsFirstReplies) \/ Respond

SpecFitLarge == Init /\ [][NextFitLarge]_vars

\* The three operations that call the agent.
NextMatchers ==
  \/ CallMatchProjects
  \/ CallMatchProjectsBatch
  \/ AgentReplyMatch
  \/ CallIsProjectGoodFit({MaxHits})
  \/ SearchReplyFit(HitLists)
  \/ AgentReplyFit(AgentReplies)
  \/ Respond

SpecMatchers == Init /\ [][NextMatchers]_vars

\* Two invocations of the four matching operations in progress at once, with
\* lists and hit lists of MaxInterleaved elements: steps of one invocation
\* come between the steps of the other in every order await allows.
InterleavedInput ==
  /\ op \in {"matchProjects", "matchProjectsBatch"} =>
       /\ args.companyProfile # ""
       /\ args.projectsGiven
       /\ Len(args.projects) = MaxInterleaved
       /\ args.threshold = 60
  /\ op = "matchProjectsBatch" => args.batchSize = 1
  /\ op = "isProjectGoodFitByKnowledgeBase" =>
       /\ args.projectDescription # ""
       /\ args.companyProfile # ""
       /\ args.fitThreshold = 60
  /\ op = "matchProjectsWithKnowledgeBase" =>
       /\ args.companyProfile # ""
       /\ args.threshold = 70

InterleavedReplies == {AgentFailure, ScoredJson(60)}
InterleavedReply == replyLog[Len(replyLog)] \in InterleavedReplies

InterleavedHitLists ==
  [1..MaxInterleaved -> {[projectId |-> "p1", text |-> "d1", score |-> 70],
                         [projectId |-> "p2", text |-> "d2", score |-> 69]}]

InterleavedKbHitLists ==
  [1..MaxInterleaved ->
     {[projectId |-> "p1", text |-> "d1", score |-> 70, hasReasoning |-> FALSE,
       reasoning |-> ""],
      [projectId |-> "p2", text |-> "d2", score |-> 69, hasReasoning |-> TRUE,
       reasoning |-> "similar"]}]

NextInterleaved ==
  \/ CallMatchProjects /\ InterleavedInput'
  \/ CallMatchProjectsBatch /\ InterleavedInput'
  \/ AgentReplyMatch /\ InterleavedReply'
  \/ CallIsProjectGoodFit({MaxInterleaved}) /\ InterleavedInput'
  \/ SearchReplyFit(InterleavedHitLists)
  \/ AgentReplyFit(InterleavedReplies)
  \/ CallMatchProjectsWithKnowledgeBase({MaxInterleaved}) /\ InterleavedInput'
  \/ SearchReplyKb(InterleavedKbHitLists)
  \/ Resume
  \/ Respond

SpecInterleaved == Init /\ [][NextInterleaved]_vars

\* The whole service, one invocation at a time: the stores and the
\* initialization fill the knowledge base, and the four matching operations
\* run on it.  The stores are given no metadata and the clock stands still.
ServiceInput ==
  /\ InterleavedInput
  /\ now = 0
  /\ op = "storeProject" => ~args.metadata.given

NextService ==
  \/ CallInitializeKnowledgeBase
  \/ StoreReplyInit
  \/ CallStoreProject /\ ServiceInput'
  \/ StoreReplyOne
  \/ CallStoreProjects(StoreLists) /\ ServiceInput'
  \/ StoreReplyMany(TRUE)
  \/ CallMatchProjects /\ ServiceInput'
  \/ CallMatchProjectsBatch /\ ServiceInput'
  \/ AgentReplyMatch /\ InterleavedReply'
  \/ CallIsProjectGoodFit({MaxInterleaved}) /\ ServiceInput'
  \/ SearchReplyFit(InterleavedHitLists)
  \/ AgentReplyFit(InterleavedReplies)
  \/ CallMatchProjectsWithKnowledgeBase({MaxInterleaved}) /\ ServiceInput'
  \/ SearchReplyKb(InterleavedKbHitLists)
  \/ Respond

SpecService == Init /\ [][NextService]_vars

\* The operations on the knowledge base other than the stores: its
\* initialization and the two that search it.
NextKb ==
  \/ CallInitializeKnowledgeBase
  \/ StoreReplyInit
  \/ CallMatchProjectsWithKnowledgeBase({MaxHits})
  \/ SearchReplyKb(KbHitLists)
  \/ CallIsProjectGoodFit({MaxHits})
  \/ SearchReplyFit(HitLists)
  \/ AgentReplyFit(AgentReplies)
  \/ Respond

SpecKb == Init /\ [][NextKb]_vars

\* The two stores, with short lists and every pattern of failures.
NextStore ==
  \/ CallStoreProject
  \/ StoreReplyOne
  \/ CallStoreProjects(StoreLists)
  \/ StoreReplyMany(TRUE)
  \/ Respond

SpecStore == Init /\ [][NextStore]_vars

\* storeProjects with up to MaxStored projects.
NextStoreMany ==
  CallStoreProjects(RepeatedLists) \/ StoreReplyMany(FALSE) \/ Respond

SpecStoreMany == Init /\ [][NextStoreMany]_vars

----------------------------------------------------------------------------
\* What the logs say about the invocation being served.

\* The number of entries of `s` that satisfy Test.
Count(s, Test(_)) == Cardinality({j \in 1..Len(s) : Test(s[j])})

\* An entry as the caller sees it, without the texts.
Core(e) == [id |-> e.id, score |-> e.score, isGoodFit |-> e.isGoodFit]

\* The two lists hold the same entries, each as often in one as in the other.
SameMultiset(s, t) ==
  /\ Len(s) = Len(t)
  /\ \A j \in 1..Len(s) :
       Count(s, LAMBDA e : Core(e) = Core(s[j])) = Count(t, LAMBDA e : Core(e) = Core(s[j]))

Failed(reply) == reply.kind # "json"

MatchDone == op = "matchProjects" /\ pc = "done"
MatchArgsValid ==
  args.companyProfile # "" /\ args.projectsGiven /\ Len(args.projects) > 0

----------------------------------------------------------------------------
\* Direct Matcher (specification Spec).

\* C1: matchProjects called with an empty companyProfile, or with an empty or
\* missing projects list, throws the argument error without having issued any
\* agent call, and gives no results: such an invocation is never found waiting
\* for the agent.
C1_InvalidArgumentsFailFast ==
  (op = "matchProjects" /\ ~MatchArgsValid) =>
     /\ pc = "done"
     /\ outcome.kind = "threw"
     /\ outcome.message = "Company profile and projects list are required"
     /\ outcome.value = <<>>
     /\ agentLog = <<>>
     /\ outstanding = 0

C1_Witness ==
  /\ MatchDone
  /\ args.companyProfile = ""
  /\ Len(args.projects) = 2
  /\ outcome.kind = "threw"

\* C2: for valid arguments and every combination of replies, matchProjects
\* returns one entry per input project: as many entries as projects, and each
\* id as often among the entries as among the projects.
C2_OneEntryPerProject ==
  (MatchDone /\ MatchArgsValid) =>
     /\ outcome.kind = "returned"
     /\ Len(outcome.value) = Len(args.projects)
     /\ \A j \in 1..Len(args.projects) :
          Count(outcome.value, LAMBDA e : e.id = args.projects[j].id)
            = Count(args.projects, LAMBDA q : q.id = args.projects[j].id)

C2_Witness ==
  /\ MatchDone
  /\ outcome.kind = "returned"
  /\ Len(args.projects) = 3
  /\ args.projects[1].id = args.projects[3].id
  /\ args.projects[1].id # args.projects[2].id
  /\ replyLog[1].kind = "callError"
  /\ replyLog[2].kind = "malformed"
  /\ replyLog[3].kind = "json"

\* C3: isGoodFit = (score >= threshold) for every entry matchProjects returns,
\* for every threshold and every reply, the entries of failed or malformed
\* replies included.  (Violated: with threshold 0 the catch block's entry has
\* score 0 and isGoodFit false.)
C3_Original ==
  (MatchDone /\ outcome.kind = "returned") =>
     \A j \in 1..Len(outcome.value) :
        outcome.value[j].isGoodFit = (outcome.value[j].score >= args.threshold)

\* What the code does guarantee about isGoodFit: the entry of a reply that
\* parsed has isGoodFit = (score >= threshold); the entry of a failed reply has
\* score 0 and isGoodFit false, which is (score >= threshold) exactly when
\* threshold > 0.  (results[j] is the entry of project j, and the returned
\* list is results, sorted.)
GoodFitIsThresholdTestWhenParsed ==
  (MatchDone /\ outcome.kind = "returned") =>
     /\ SameMultiset(outcome.value, results)
     /\ \A j \in 1..Len(results) :
          IF Failed(replyLog[j])
          THEN /\ results[j].score = 0
               /\ ~results[j].isGoodFit
               /\ (results[j].isGoodFit = (results[j].score >= args.threshold))
                    = (args.threshold > 0)
          ELSE results[j].isGoodFit = (results[j].score >= args.threshold)

GoodFitOfFailedReplyAtThresholdZero ==
  /\ MatchDone
  /\ outcome.kind = "returned"
  /\ args.threshold = 0
  /\ \E j \in 1..Len(results) : ~Failed(replyLog[j]) /\ results[j].score = 60
                                  /\ results[j].isGoodFit
  /\ \E j \in 1..Len(results) : ~Failed(replyLog[j]) /\ results[j].score = -5
  /\ \E j \in 1..Len(results) : Failed(replyLog[j])

\* C4: a failed call or a reply that does not parse does not abort
\* matchProjects: the project gets the entry (score 0, not a good fit, no
\* matched areas, reasoning with the error's message), every other project is
\* still asked about, in order, and the invocation returns a list that holds
\* the entry.
C4_FailureIsContained ==
  (op = "matchProjects" /\ MatchArgsValid) =>
     /\ \A j \in 1..Len(replyLog) :
          Failed(replyLog[j]) =>
             /\ results[j].id = args.projects[j].id
             /\ results[j].score = 0
             /\ results[j].isGoodFit = FALSE
             /\ results[j].matchedAreas = <<>>
             /\ results[j].reasoning[1] = "Error processing: "
             /\ results[j].reasoning[2] =
                  (IF replyLog[j].isError THEN replyLog[j].message ELSE "Unknown error")
     /\ pc = "done" =>
          /\ outcome.kind = "returned"
          /\ Len(agentLog) = Len(args.projects)
          /\ Len(replyLog) = Len(args.projects)
          /\ \A j \in 1..Len(args.projects) :
               /\ agentLog[j].projectDescription = args.projects[j].description
               /\ \E m \in 1..Len(outcome.value) : outcome.value[m] = results[j]

C4_Witness ==
  /\ MatchDone
  /\ outcome.kind = "returned"
  /\ Len(args.projects) = 3
  /\ Failed(replyLog[1])
  /\ replyLog[2].kind = "malformed"
  /\ ~Failed(replyLog[3])
  /\ results[3].score = 150

\* C5: the list matchProjects returns is sorted by score, descending.
C5_SortedByScoreDescending ==
  (MatchDone /\ outcome.kind = "returned") =>
     \A j \in 1..(Len(outcome.value) - 1) :
        outcome.value[j].score >= outcome.value[j + 1].score

C5_Witness ==
  /\ MatchDone
  /\ outcome.kind = "returned"
  /\ Len(results) = 3
  /\ results[1].score < results[3].score
  /\ results[3].score < results[2].score
  /\ Failed(replyLog[1])
  /\ outcome.value # results

----------------------------------------------------------------------------
\* Batch Matcher (specification SpecBatch).

\* The agent has answered equal prompts equally, and the function it has
\* shown so far.
AgentConsistent ==
  \A a, b \in 1..Len(replyLog) : agentLog[a] = agentLog[b] => replyLog[a] = replyLog[b]
AgentTable ==
  [p \in {agentLog[j] : j \in 1..Len(replyLog)} |->
     replyLog[CHOOSE j \in 1..Len(replyLog) : agentLog[j] = p]]

BatchDone == op = "matchProjectsBatch" /\ pc = "done"

\* C6: with an agent that answers by the prompt alone, matchProjectsBatch with
\* any batchSize >= 1 ends as it does with batchSize = projects.length: both
\* throw, or both return, and then the same entries (id, score, isGoodFit),
\* each as often.
C6_BatchSizeDoesNotChangeResults ==
  (BatchDone /\ args.projectsGiven /\ args.batchSize >= 1 /\ AgentConsistent) =>
     LET whole == MatchProjectsBatchOf(args.companyProfile, args.projects, args.threshold,
                                       Len(args.projects), AgentTable)
     IN /\ outcome.kind = whole.kind
        /\ SameMultiset(outcome.value, whole.value)

C6_Witness ==
  /\ BatchDone
  /\ outcome.kind = "returned"
  /\ AgentConsistent
  /\ Len(args.projects) = 3
  /\ args.batchSize = 2
  /\ args.projects[1] = args.projects[3]
  /\ args.projects[1] # args.projects[2]
  /\ Failed(replyLog[1])
  /\ ~Failed(replyLog[2])

----------------------------------------------------------------------------
\* Fit Analyzer (specifications SpecFit and SpecFitStats).

FitDone == op = "isProjectGoodFitByKnowledgeBase" /\ pc = "done"
FitReturned == FitDone /\ outcome.kind = "returned"

ZeroStatistics ==
  [totalSimilarProjects |-> 0, goodFitProjects |-> 0, goodFitPercentage |-> Num(0),
   averageFitScore |-> Num(0)]

\* C7: no number of a returned FitAnalysis comes from a division by zero (none
\* is NaN), and the statistics are computed only from scored candidates.  When
\* no hit of the search reaches similarityThreshold, the result is isGoodFit
\* false, confidence 0, no similar projects and all-zero statistics, and the
\* agent was never called.
C7_NoDivisionByZero ==
  FitReturned =>
     /\ ~outcome.value.confidence.nan
     /\ ~outcome.value.statistics.goodFitPercentage.nan
     /\ ~outcome.value.statistics.averageFitScore.nan
     /\ ~outcome.value.reasoning.percentage.nan
     /\ ~outcome.value.reasoning.avgScore.nan
     /\ similarProjectsAnalysis = <<>> => outcome.value.statistics = ZeroStatistics
     /\ (\A j \in 1..Len(similarProjectResults) :
           similarProjectResults[j].score < args.similarityThreshold) =>
          /\ outcome.value.isGoodFit = FALSE
          /\ outcome.value.confidence = Num(0)
          /\ outcome.value.similarProjects = <<>>
          /\ outcome.value.statistics = ZeroStatistics
          /\ agentLog = <<>>

C7_Witness ==
  /\ FitReturned
  /\ Len(similarProjectResults) = 3
  /\ \A j \in 1..3 : similarProjectResults[j].score = 69
  /\ args.similarityThreshold = 70
  /\ agentLog = <<>>
  /\ outcome.value.statistics.totalSimilarProjects = 0

\* C8: for a non-empty list of scored candidates, goodFitPercentage is
\* goodFitProjects / totalSimilarProjects * 100 rounded to 2 decimals (so in
\* hundredths it is within 1/2 of 10000 * good / total), and isGoodFit holds
\* exactly when 2 * goodFitProjects >= totalSimilarProjects; 6 good fits out of
\* 8 give 8, 6, 75.00, isGoodFit true and confidence 75.
C8_PercentageAndMajority ==
  (FitReturned /\ Len(similarProjectsAnalysis) > 0) =>
     LET st == outcome.value.statistics
         total == st.totalSimilarProjects
         good == st.goodFitProjects
         diff == st.goodFitPercentage.n * total - 10000 * good
     IN /\ total = Len(similarProjectsAnalysis)
        /\ good = Count(similarProjectsAnalysis, LAMBDA e : e.isCompanyFit)
        /\ ~st.goodFitPercentage.nan
        /\ 2 * diff <= total
        /\ -2 * diff <= total
        /\ outcome.value.isGoodFit = (2 * good >= total)
        /\ (total = 8 /\ good = 6) =>
             /\ st.goodFitPercentage = Num(7500)
             /\ outcome.value.isGoodFit
             /\ outcome.value.confidence = Num(75)

C8_Witness ==
  /\ FitReturned
  /\ Len(relevantSimilarProjects) = 8
  /\ outcome.value.statistics.totalSimilarProjects = 8
  /\ outcome.value.statistics.goodFitProjects = 6
  /\ outcome.value.statistics.goodFitPercentage = Num(7500)
  /\ outcome.value.isGoodFit
  /\ outcome.value.confidence = Num(75)

\* The number of the first n replies that parsed.
Parsed(n) == Cardinality({j \in 1..n : ~Failed(replyLog[j])})

\* C9: a candidate whose call failed or whose reply did not parse is dropped:
\* similarProjects holds, in order, one entry for each candidate whose reply
\* parsed and none for the others, totalSimilarProjects counts only those, and
\* every candidate after a failed one is still sent to the agent.
C9_FailedCandidateIsDropped ==
  (FitReturned /\ Len(relevantSimilarProjects) > 0) =>
     LET n == Len(relevantSimilarProjects)
     IN /\ Len(agentLog) = n
        /\ Len(replyLog) = n
        /\ \A j \in 1..n :
             agentLog[j].projectDescription = relevantSimilarProjects[j].text
        /\ Len(outcome.value.similarProjects) = Parsed(n)
        /\ outcome.value.statistics.totalSimilarProjects = Parsed(n)
        /\ \A j \in 1..n :
             ~Failed(replyLog[j]) =>
                LET e == outcome.value.similarProjects[Parsed(j)]
                IN /\ e.id = relevantSimilarProjects[j].projectId
                   /\ e.similarity = relevantSimilarProjects[j].score
                   /\ e.companyFitScore =
                        (IF replyLog[j].hasScore THEN replyLog[j].score ELSE 0)

C9_Witness ==
  /\ FitReturned
  /\ Len(relevantSimilarProjects) = 3
  /\ ~Failed(replyLog[1])
  /\ Failed(replyLog[2])
  /\ ~Failed(replyLog[3])
  /\ Len(outcome.value.similarProjects) = 2
  /\ outcome.value.statistics.totalSimilarProjects = 2

\* C10: when some hit passed the similarity filter and every candidate's call
\* failed, the invocation returns (it does not throw) isGoodFit false,
\* confidence 0, no similar projects and all-zero statistics, with a reasoning
\* that is not the one of the no-similar-projects result.
C10_UnableToAnalyze ==
  (FitDone /\ Len(relevantSimilarProjects) > 0
     /\ \A j \in 1..Len(replyLog) : Failed(replyLog[j])) =>
     /\ outcome.kind = "returned"
     /\ outcome.value.isGoodFit = FALSE
     /\ outcome.value.confidence = Num(0)
     /\ outcome.value.similarProjects = <<>>
     /\ outcome.value.statistics = ZeroStatistics
     /\ outcome.value.reasoning.text
          # "No similar projects found in knowledge base to make a comparison."

C10_Witness ==
  /\ FitReturned
  /\ Len(relevantSimilarProjects) = 2
  /\ Len(replyLog) = 2
  /\ replyLog[1].kind = "callError"
  /\ replyLog[2].kind = "malformed"
  /\ outcome.value.confidence = Num(0)

\* C11: the confidence of every returned FitAnalysis is an integer in 0..100,
\* and it is goodFitPercentage = goodFitProjects / totalSimilarProjects * 100
\* rounded to the nearest integer (it is within 1/2 of it, and above it when
\* the distance is exactly 1/2); it is 0 in both short-circuit results.
C11_ConfidenceIsRoundedPercentage ==
  FitReturned =>
     LET c == outcome.value.confidence
         total == Len(similarProjectsAnalysis)
         good == Count(similarProjectsAnalysis, LAMBDA e : e.isCompanyFit)
     IN /\ ~c.nan
        /\ c.n \in 0..100
        /\ total = 0 => c.n = 0
        /\ total > 0 =>
             /\ 2 * (c.n * total - 100 * good) <= total
             /\ 2 * (100 * good - c.n * total) < total

C11_Witness ==
  /\ FitReturned
  /\ Len(similarProjectsAnalysis) = 3
  /\ outcome.value.statistics.goodFitProjects = 2
  /\ outcome.value.confidence = Num(67)
  /\ outcome.value.statistics.goodFitPercentage = Num(6667)

----------------------------------------------------------------------------
\* Batch Matcher, its arguments (specification SpecBatch).

\* C13: matchProjectsBatch called with an empty companyProfile throws the
\* argument error and issues no agent call, whatever the projects list (the
\* empty list included) and the batchSize.  (Violated: with the empty list the
\* loop is not entered and the empty list is returned.)
C13_Original ==
  (op = "matchProjectsBatch" /\ args.projectsGiven /\ args.companyProfile = "") =>
     /\ pc = "done"
     /\ outcome.kind = "threw"
     /\ outcome.message = "Company profile and projects list are required"
     /\ agentLog = <<>>
     /\ outstanding = 0

\* What the code does with an empty companyProfile: no agent call for any
\* list and any batchSize; the argument error of the first chunk's
\* matchProjects when the list is not empty, and the empty list returned when
\* it is.
BatchEmptyProfile ==
  (op = "matchProjectsBatch" /\ args.projectsGiven /\ args.companyProfile = "") =>
     /\ pc = "done"
     /\ agentLog = <<>>
     /\ outstanding = 0
     /\ IF Len(args.projects) > 0
        THEN /\ outcome.kind = "threw"
             /\ outcome.message = "Company profile and projects list are required"
        ELSE /\ outcome.kind = "returned"
             /\ outcome.value = <<>>

----------------------------------------------------------------------------
\* Semantic Matcher and initialization (specification SpecKb).

KbDone == op = "matchProjectsWithKnowledgeBase" /\ pc = "done"

\* C12: matchProjectsWithKnowledgeBase with an empty companyProfile, and
\* isProjectGoodFitByKnowledgeBase with an empty projectDescription or an empty
\* companyProfile, throw their argument error without having issued a search
\* or an agent call: such an invocation is never found waiting for a reply.
C12_EmptyTextFailsBeforeAnyCall ==
  /\ (op = "matchProjectsWithKnowledgeBase" /\ args.companyProfile = "") =>
        /\ pc = "done"
        /\ outcome.kind = "threw"
        /\ outcome.message = "Company profile is required"
        /\ outcome.value = <<>>
        /\ searchLog = <<>>
        /\ agentLog = <<>>
        /\ outstanding = 0
  /\ (op = "isProjectGoodFitByKnowledgeBase"
        /\ (args.projectDescription = "" \/ args.companyProfile = "")) =>
        /\ pc = "done"
        /\ outcome.kind = "threw"
        /\ outcome.message = "Project description and company profile are required"
        /\ outcome.value = <<>>
        /\ searchLog = <<>>
        /\ agentLog = <<>>
        /\ outstanding = 0

C12_Witness ==
  /\ KbDone
  /\ args.companyProfile = ""
  /\ outcome.kind = "threw"
  /\ searchLog = <<>>

SearchFailed == Len(searchReplies) > 0 /\ searchReplies[1].kind = "callError"

\* C14: when the search call of matchProjectsWithKnowledgeBase or of
\* isProjectGoodFitByKnowledgeBase fails, the invocation ends at once by
\* throwing an error that wraps the upstream one: its message is the
\* operation's prefix followed by the upstream error's message ('Unknown
\* error' when what was thrown is not an Error).  Nothing is returned, and no
\* agent call is made.
C14_SearchFailureIsWrapped ==
  (op \in {"matchProjectsWithKnowledgeBase", "isProjectGoodFitByKnowledgeBase"}
     /\ SearchFailed) =>
     /\ pc = "done"
     /\ outcome.kind = "threw"
     /\ outcome.value = <<>>
     /\ Len(outcome.message) = 2
     /\ outcome.message[1] = (IF op = "matchProjectsWithKnowledgeBase"
                               THEN "Failed to match projects: "
                               ELSE "Failed to check project fit: ")
     /\ outcome.message[2] = (IF searchReplies[1].isError THEN searchReplies[1].message
                               ELSE "Unknown error")
     /\ Len(searchLog) = 1
     /\ agentLog = <<>>
     /\ outstanding = 0

C14_Witness ==
  /\ FitDone
  /\ searchReplies = <<SearchFailure>>
  /\ outcome.kind = "threw"
  /\ outcome.message = <<"Failed to check project fit: ", "search unavailable">>
  /\ agentLog = <<>>

StoreFailed == Len(storeReplies) > 0 /\ storeReplies[1].kind = "callError"

\* C15: when kb.upsertKnowledgeBase fails, initializeKnowledgeBase ends as
\* matchProjectsWithKnowledgeBase does after a failed search: by throwing a
\* wrapped error, not by returning a value.  (Violated: the catch block returns
\* a result object.)
C15_Original ==
  (op = "initializeKnowledgeBase" /\ StoreFailed) =>
     /\ pc = "done"
     /\ outcome.kind = "threw"
     /\ outcome.value = <<>>

\* What the code does instead: the failure is returned as a value, success
\* false with the wrapped message.
InitFailureIsReturned ==
  (op = "initializeKnowledgeBase" /\ StoreFailed) =>
     /\ pc = "done"
     /\ outcome.kind = "returned"
     /\ outcome.value.success = FALSE
     /\ outcome.value.message =
          <<"Failed to initialize knowledge base: ",
            IF storeReplies[1].isError THEN storeReplies[1].message ELSE "Unknown error">>

----------------------------------------------------------------------------
\* Project Store Adapter (specifications SpecStore and SpecStoreMany).

StoreManyDone == op = "storeProjects" /\ pc = "done"
StoreOneDone == op = "storeProject" /\ pc = "done"

\* C17: storeProjects always returns a result, with successCount =
\* projects.length - failureCount and success only if failureCount = 0.  When
\* the store call resolved, failureCount is the number of failures it reported
\* (0 when it reported none) and success says whether that is 0; when it threw,
\* success is false, successCount 0 and failureCount projects.length.  In each
\* case successCount + failureCount = projects.length; 10 projects and no
\* failure give success true, successCount 10, failureCount 0.
C17_StoreCountsAddUp ==
  StoreManyDone =>
     LET total == Len(args.projects)
         reply == storeReplies[1]
         result == outcome.value
     IN /\ outcome.kind = "returned"
        /\ result.successCount = total - result.failureCount
        /\ result.successCount + result.failureCount = total
        /\ result.success => result.failureCount = 0
        /\ IF reply.kind = "resolved"
           THEN /\ result.failureCount =
                     (IF reply.failuresGiven THEN Cardinality(reply.failures) ELSE 0)
                /\ result.success = (result.failureCount = 0)
           ELSE /\ result.success = FALSE
                /\ result.successCount = 0
                /\ result.failureCount = total
        /\ (total = 10 /\ reply.kind = "resolved" /\ reply.failures = {}) =>
             /\ result.success = TRUE
             /\ result.successCount = 10
             /\ result.failureCount = 0

C17_Witness ==
  /\ StoreManyDone
  /\ Len(args.projects) = 10
  /\ storeReplies[1].kind = "resolved"
  /\ storeReplies[1].failures = {}
  /\ outcome.value.success = TRUE
  /\ outcome.value.successCount = 10
  /\ outcome.value.failureCount = 0
  /\ Cardinality(corpus) = 1

\* The other outcomes of C17: some of the projects failed, and the call threw.
StorePartlyFailed ==
  /\ StoreManyDone
  /\ Len(args.projects) = 10
  /\ storeReplies[1].kind = "resolved"
  /\ outcome.value.success = FALSE
  /\ outcome.value.successCount = 7
  /\ outcome.value.failureCount = 3
StoreThrew ==
  /\ StoreManyDone
  /\ Len(args.projects) = 10
  /\ storeReplies[1].kind = "callError"
  /\ outcome.value.successCount = 0
  /\ outcome.value.failureCount = 10

\* The corpus has one context per project id stored, under that id, with the
\* text of the last store of the id that succeeded.
CorpusKeyedById ==
  /\ \A c \in corpus : c.contextId = c.metadata.projectId
  /\ \A c1, c2 \in corpus : c1.metadata.projectId = c2.metadata.projectId => c1 = c2
  /\ {c.metadata.projectId : c \in corpus} = DOMAIN lastStored
  /\ \A c \in corpus : c.text = lastStored[c.metadata.projectId].project.description

\* A store call resolves in this step, and the requests it has written.
StoreResolves ==
  /\ pc = "await_store"
  /\ op \in {"storeProject", "storeProjects"}
  /\ pc' = "done"
  /\ storeReplies'[1].kind = "resolved"
WrittenNow ==
  IF op = "storeProject" THEN storeLog[1].requests
  ELSE Written(storeLog[1].requests, storeReplies'[1].failures)
\* The last request of `requests` for a context id.
LastFor(requests, id) ==
  requests[CHOOSE j \in 1..Len(requests) :
             /\ requests[j].contextId = id
             /\ \A m \in (j + 1)..Len(requests) : requests[m].contextId # id]

\* A context without the time it was stored at.
Timeless(c) == [c EXCEPT !.metadata.addedAt = 0]
\* The store that resolves in this step has written only contexts the corpus
\* already held, apart from their addedAt: the same projects are stored again.
StoredAgain ==
  /\ StoreResolves
  /\ WrittenNow # <<>>
  /\ \A j \in 1..Len(WrittenNow) : \E c \in corpus : Timeless(c) = Timeless(WrittenNow[j])

StoredIds ==
  LET written == Written(args.projects, storeReplies[1].failures)
  IN {written[j].id : j \in 1..Len(written)}

\* The context the corpus holds for a project id.
RecordOf(id) == CHOOSE c \in corpus : c.contextId = id

\* C19: the context written for a project, by storeProject as by
\* storeProjects, is keyed by project.id, has projectId = project.id and
\* carries in its metadata every optional attribute of the project as it is
\* set on the project; storeProject writes the context storeProjects writes
\* for the same project, apart from addedAt.  (Violated: storeProject takes
\* the attributes from its second argument and ignores those of the project.)
C19_Original ==
  /\ (StoreOneDone /\ outcome.value.success) =>
        LET c == RecordOf(args.project.id)
        IN /\ c.contextId = args.project.id
           /\ c.metadata.projectId = args.project.id
           /\ c.metadata.title = args.project.title
           /\ c.metadata.agency = args.project.agency
           /\ c.metadata.budget = args.project.budget
           /\ Timeless(c) = Timeless(contextRequest(args.project, 0))
  /\ (StoreManyDone /\ storeReplies[1].kind = "resolved") =>
        \A id \in StoredIds :
           LET c == RecordOf(id)
               project == lastStored[id].project
           IN /\ c.contextId = id
              /\ c.metadata.projectId = id
              /\ c.metadata.title = project.title
              /\ c.metadata.agency = project.agency
              /\ c.metadata.budget = project.budget

\* What the code does: both stores key the context by project.id and set
\* projectId to it; storeProjects carries the project's attributes, and
\* storeProject the attributes of its metadata argument (none when it is left
\* out), the description among them.
StoreCarriesAttributes ==
  /\ (StoreOneDone /\ outcome.value.success) =>
        LET c == RecordOf(args.project.id)
            given == args.metadata.given
        IN /\ c.contextId = args.project.id
           /\ c.text = args.project.description
           /\ c.metadata.projectId = args.project.id
           /\ c.metadata.title = (IF given THEN args.metadata.title ELSE <<>>)
           /\ c.metadata.description = (IF given THEN args.metadata.description ELSE <<>>)
           /\ c.metadata.agency = (IF given THEN args.metadata.agency ELSE <<>>)
           /\ c.metadata.budget = (IF given THEN args.metadata.budget ELSE <<>>)
  /\ (StoreManyDone /\ storeReplies[1].kind = "resolved") =>
        \A id \in StoredIds :
           LET c == RecordOf(id)
               project == lastStored[id].project
           IN /\ c.contextId = id
              /\ c.text = project.description
              /\ c.metadata.projectId = id
              /\ c.metadata.title = project.title
              /\ c.metadata.description = <<project.description>>
              /\ c.metadata.agency = project.agency
              /\ c.metadata.budget = project.budget

----------------------------------------------------------------------------
\* Order of the external calls (specification SpecMatchers).

----------------------------------------------------------------------------
\* Knowledge-Base Matcher: the matched areas (specification SpecKb).

\* The position of a technology in the vocabulary.
VocabularyIndex(tech) == CHOOSE j \in 1..Len(technologies) : technologies[j] = tech

\* `areas` lists the technologies of `common`, each once, in vocabulary order.
InVocabularyOrder(areas, common) ==
  /\ Len(areas) = Cardinality(common)
  /\ {areas[j] : j \in 1..Len(areas)} = common
  /\ \A x, y \in 1..Len(areas) :
       x < y => VocabularyIndex(areas[x]) < VocabularyIndex(areas[y])

----------------------------------------------------------------------------
\* Fit Analyzer: the similarity filter (specification SpecFit).

\* The hits of the invocation's search, once it has returned them.
FoundHits ==
  IF Len(searchReplies) > 0 /\ searchReplies[1].kind = "hits"
  THEN searchReplies[1].hits ELSE <<>>

\* The positions of the hits whose score is at least the similarity threshold.
SimilarPositions ==
  {j \in 1..Len(FoundHits) : FoundHits[j].score >= args.similarityThreshold}

\* C23: every similarProjects entry of a returned analysis comes from a hit of
\* the search whose score is at least similarityThreshold (a hit at the
\* threshold is kept), carries that hit's score as its similarity, and has
\* isCompanyFit true exactly when its companyFitScore is at least
\* fitThreshold; the agent is asked about the hits at or above the threshold,
\* one call each, and about no hit below it.
C23_OnlySimilarHitsAreScored ==
  (op = "isProjectGoodFitByKnowledgeBase") =>
     /\ Len(agentLog) <= Cardinality(SimilarPositions)
     /\ \A c \in 1..Len(agentLog) :
          \E j \in SimilarPositions :
            /\ Cardinality({x \in SimilarPositions : x <= j}) = c
            /\ agentLog[c].projectDescription = FoundHits[j].text
     /\ FitReturned =>
          /\ Len(agentLog) = Cardinality(SimilarPositions)
          /\ \A x \in 1..Len(outcome.value.similarProjects) :
               LET e == outcome.value.similarProjects[x]
               IN /\ \E j \in SimilarPositions :
                       /\ FoundHits[j].projectId = e.id
                       /\ FoundHits[j].score = e.similarity
                  /\ e.similarity >= args.similarityThreshold
                  /\ e.isCompanyFit <=> (e.companyFitScore >= args.fitThreshold)

\* A search returned one hit below the threshold and one at it; the one at
\* it was scored with exactly fitThreshold and is a company fit.
C23_Witness ==
  /\ FitReturned
  /\ Len(FoundHits) = 2
  /\ FoundHits[1].score < args.similarityThreshold
  /\ FoundHits[2].score = args.similarityThreshold
  /\ Len(agentLog) = 1
  /\ Len(outcome.value.similarProjects) = 1
  /\ outcome.value.similarProjects[1].similarity = args.similarityThreshold
  /\ outcome.value.similarProjects[1].companyFitScore = args.fitThreshold
  /\ args.fitThreshold = 60
  /\ outcome.value.similarProjects[1].isCompanyFit

----------------------------------------------------------------------------
\* Response parsing of the two scoring loops (specification SpecMatchers).

\* The score a parsed reply carries: its `score` key, or 0 without one.
ScoreOf(reply) == IF reply.hasScore THEN reply.score ELSE 0

\* C25: when the agent's reply parses as JSON, the score recorded for the
\* project (matchProjects) or the companyFitScore recorded for the candidate
\* (fit analyzer) is the reply's score as it is, also below 0 and above 100,
\* and 0 when the reply has no score; a reply without reasoning gets the
\* placeholder, one without matchedAreas the empty list; and a reply without
\* score is recorded as a scored entry, not as a failure.
C25_ScoreIsTakenUnchanged ==
  /\ (MatchDone /\ outcome.kind = "returned") =>
        \A j \in 1..Len(args.projects) :
          ~Failed(replyLog[j]) =>
             \E x \in 1..Len(outcome.value) :
               LET e == outcome.value[x]
               IN /\ e.id = args.projects[j].id
                  /\ e.score = ScoreOf(replyLog[j])
                  /\ e.isGoodFit <=> (ScoreOf(replyLog[j]) >= args.threshold)
                  /\ e.reasoning = (IF replyLog[j].hasReasoning
                                    THEN <<replyLog[j].reasoning>>
                                    ELSE <<"No reasoning provided">>)
                  /\ e.matchedAreas = (IF replyLog[j].hasMatchedAreas
                                       THEN replyLog[j].matchedAreas ELSE <<>>)
  /\ FitReturned =>
        /\ Len(outcome.value.similarProjects)
             = Cardinality({j \in 1..Len(replyLog) : ~Failed(replyLog[j])})
        /\ \A j \in 1..Len(replyLog) :
             ~Failed(replyLog[j]) =>
                \E x \in 1..Len(outcome.value.similarProjects) :
                  LET e == outcome.value.similarProjects[x]
                  IN /\ e.id = relevantSimilarProjects[j].projectId
                     /\ e.companyFitScore = ScoreOf(replyLog[j])
                     /\ e.isCompanyFit <=> (ScoreOf(replyLog[j]) >= args.fitThreshold)

\* matchProjects got a score above 100, a score below 0 and a reply without
\* any key, and its result holds 150, -5 and an entry with score 0, the
\* placeholder and no matched areas.
C25_Witness ==
  /\ MatchDone
  /\ outcome.kind = "returned"
  /\ Len(args.projects) = 3
  /\ replyLog = <<ScoredJson(150), ScoredJson(-5), EmptyJson>>
  /\ outcome.value[1].score = 150
  /\ outcome.value[3].score = -5
  /\ outcome.value[2].score = 0
  /\ outcome.value[2].reasoning = <<"No reasoning provided">>
  /\ outcome.value[2].matchedAreas = <<>>

----------------------------------------------------------------------------
\* Fit Analyzer: the statistics block (specification SpecFit).

\* The position, among the hits of the search, of the c-th hit that passed
\* the similarity filter.
SimilarAt(c) ==
  CHOOSE j \in SimilarPositions : Cardinality({x \in SimilarPositions : x <= j}) = c

\* The sum of the companyFitScore of the first n entries.
RECURSIVE FitScoreSum(_, _)
FitScoreSum(entries, n) ==
  IF n = 0 THEN 0 ELSE FitScoreSum(entries, n - 1) + entries[n].companyFitScore

\* C28: in every returned FitAnalysis, totalSimilarProjects is the length of
\* similarProjects, goodFitProjects is the number of its entries with
\* isCompanyFit (so between 0 and the total), averageFitScore is the mean of
\* its entries' companyFitScore (to 2 decimals; 0 for the empty list), and the
\* entries of similarProjects stand in the order the search returned their
\* hits.
C28_StatisticsMatchSimilarProjects ==
  FitReturned =>
     LET sp == outcome.value.similarProjects
         st == outcome.value.statistics
         total == st.totalSimilarProjects
         good == st.goodFitProjects
         avg == st.averageFitScore
         sum == FitScoreSum(sp, Len(sp))
     IN /\ total = Len(sp)
        /\ good = Cardinality({x \in 1..Len(sp) : sp[x].isCompanyFit})
        /\ 0 <= good /\ good <= total
        /\ ~avg.nan
        /\ total = 0 => avg.n = 0
        /\ total > 0 =>
             /\ 2 * (avg.n * total - 100 * sum) <= total
             /\ 2 * (100 * sum - avg.n * total) < total
        /\ \A c \in 1..Len(replyLog) :
             ~Failed(replyLog[c]) =>
                /\ sp[Parsed(c)].id = FoundHits[SimilarAt(c)].projectId
                /\ sp[Parsed(c)].similarity = FoundHits[SimilarAt(c)].score

\* Three hits passed the filter, the second was dropped; the two entries are
\* the first and the third hit, in that order, one of them a fit, and the
\* average of 150 and -5 is 72.5.
C28_Witness ==
  /\ FitReturned
  /\ Len(FoundHits) = 3
  /\ FoundHits[1].projectId # FoundHits[3].projectId
  /\ replyLog = <<ScoredJson(150), MalformedJson, ScoredJson(-5)>>
  /\ Len(outcome.value.similarProjects) = 2
  /\ outcome.value.similarProjects[1].id = FoundHits[1].projectId
  /\ outcome.value.similarProjects[2].id = FoundHits[3].projectId
  /\ outcome.value.statistics.totalSimilarProjects = 2
  /\ outcome.value.statistics.goodFitProjects = 1
  /\ outcome.value.statistics.averageFitScore = Num(7250)

----------------------------------------------------------------------------
\* Batch Matcher against the Direct Matcher (specification SpecBatch).

\* C26: for a non-empty companyProfile, a non-empty projects list and a
\* batchSize of at least 1, with an agent that answers by the prompt alone,
\* matchProjectsBatch returns the list matchProjects returns for the whole
\* list: the same entries in the same order, entries of equal score included.
C26_BatchEqualsDirect ==
  (/\ BatchDone
   /\ args.companyProfile # ""
   /\ args.projectsGiven
   /\ Len(args.projects) > 0
   /\ args.batchSize >= 1
   /\ AgentConsistent) =>
     LET direct == MatchProjectsOf(args.companyProfile, TRUE, args.projects,
                                   args.threshold, AgentTable)
     IN /\ outcome.kind = "returned"
        /\ direct.kind = "returned"
        /\ outcome.value = direct.value

\* Three projects in chunks of two, the first and the third in different
\* chunks, all with the same score: the result has them in the order of the
\* input.
C26_Witness ==
  /\ BatchDone
  /\ outcome.kind = "returned"
  /\ AgentConsistent
  /\ args.batchSize = 2
  /\ Len(args.projects) = 3
  /\ args.projects[1].id # args.projects[2].id
  /\ args.projects[2].id = args.projects[3].id
  /\ \A j \in 1..3 : ~Failed(replyLog[j]) /\ replyLog[j].hasScore /\ replyLog[j].score = 60
  /\ \A j \in 1..3 : outcome.value[j].id = args.projects[j].id

----------------------------------------------------------------------------
\* Batch Matcher: termination (specification SpecBatchFair).

BatchRunning == op = "matchProjectsBatch" /\ pc = "await_agent"

\* No project is sent to the agent twice: the chunks do not overlap.
BatchCallsBounded ==
  (op = "matchProjectsBatch" /\ args.projectsGiven) => Len(agentLog) <= Len(args.projects)

\* C27: matchProjectsBatch ends for every projects list and every integer
\* batchSize, 0 and negative ones included, when every agent call returns or
\* fails: it makes at most one agent call per project, and an invocation that
\* waits for the agent reaches its end, with a result list or with an error.
C27_BatchTerminates ==
  /\ []BatchCallsBounded
  /\ BatchRunning ~> (BatchDone /\ outcome.kind \in {"returned", "threw"})

\* A batchSize of 0 ended in the argument error of the first, empty chunk; a
\* negative one ended in it after the first chunk was scored.
C27_Witness ==
  /\ BatchDone
  /\ args.companyProfile # ""
  /\ args.batchSize = -1
  /\ Len(args.projects) = 3
  /\ Len(replyLog) = 2
  /\ outcome.kind = "threw"

C27_WitnessZero ==
  /\ BatchDone
  /\ args.companyProfile # ""
  /\ args.batchSize = 0
  /\ Len(args.projects) = 3
  /\ Len(replyLog) = 0
  /\ outcome.kind = "threw"

----------------------------------------------------------------------------
\* Fit Analyzer: the pipeline (specification SpecFitFair).

FitServed == op = "isProjectGoodFitByKnowledgeBase"

\* The steps of the pipeline, in their order.
Stage(p) ==
  CASE p = "idle" -> 0
    [] p = "await_search" -> 1
    [] p = "await_agent" -> 2
    [] p = "done" -> 3

\* The five ends of an invocation.
EndsInvalidArgument ==
  /\ outcome.kind = "threw"
  /\ searchLog = <<>>
  /\ agentLog = <<>>
  /\ args.projectDescription = "" \/ args.companyProfile = ""

EndsSearchFailure ==
  /\ outcome.kind = "threw"
  /\ Len(searchLog) = 1
  /\ Len(searchReplies) = 1
  /\ searchReplies[1].kind = "callError"
  /\ agentLog = <<>>

EndsNoSimilarProjects ==
  /\ outcome.kind = "returned"
  /\ Len(searchReplies) = 1
  /\ searchReplies[1].kind = "hits"
  /\ SimilarPositions = {}
  /\ agentLog = <<>>
  /\ outcome.value = NoSimilarProjects

EndsUnableToAnalyze ==
  /\ outcome.kind = "returned"
  /\ SimilarPositions # {}
  /\ Len(replyLog) = Cardinality(SimilarPositions)
  /\ \A j \in 1..Len(replyLog) : Failed(replyLog[j])
  /\ outcome.value = UnableToAnalyze

EndsAggregatedVerdict ==
  /\ outcome.kind = "returned"
  /\ SimilarPositions # {}
  /\ Len(replyLog) = Cardinality(SimilarPositions)
  /\ \E j \in 1..Len(replyLog) : ~Failed(replyLog[j])
  /\ Len(outcome.value.similarProjects) > 0
  /\ outcome.value.statistics.totalSimilarProjects > 0

EndsCount ==
  Cardinality({e \in {"invalid", "search", "none", "unable", "verdict"} :
                 CASE e = "invalid" -> EndsInvalidArgument
                   [] e = "search" -> EndsSearchFailure
                   [] e = "none" -> EndsNoSimilarProjects
                   [] e = "unable" -> EndsUnableToAnalyze
                   [] e = "verdict" -> EndsAggregatedVerdict})

\* At most one search, answered before the first agent call; agent calls only
\* for the hits that passed the filter, one each, one at a time; and at the
\* end exactly one of the five outcomes.
PipelineState ==
  FitServed =>
     /\ Len(searchLog) <= 1
     /\ Len(searchReplies) <= Len(searchLog)
     /\ pc \in {"await_search", "await_agent", "done"}
     /\ pc = "await_search" => (Len(searchLog) = 1 /\ searchReplies = <<>> /\ agentLog = <<>>)
     /\ agentLog # <<>> =>
          (Len(searchLog) = 1 /\ Len(searchReplies) = 1 /\ searchReplies[1].kind = "hits")
     /\ Len(agentLog) <= Cardinality(SimilarPositions)
     /\ pc = "await_agent" => Len(agentLog) = Len(replyLog) + 1
     /\ pc = "done" => (Len(agentLog) = Len(replyLog) /\ EndsCount = 1)
     /\ pc # "done" => outcome = NoOutcome

\* No step of an invocation goes back to an earlier step of the pipeline, no
\* call is taken back, and a reached end is not changed.
PipelineStep ==
  (FitServed /\ op' = op) =>
     /\ Stage(pc') >= Stage(pc)
     /\ Len(searchLog') >= Len(searchLog)
     /\ Len(agentLog') >= Len(agentLog)
     /\ Len(agentLog') <= Len(agentLog) + 1
     /\ pc = "done" => (pc' = "done" /\ outcome' = outcome)

\* C24: isProjectGoodFitByKnowledgeBase is a linear pipeline: one search call
\* at most, answered before any agent call; one agent call for each hit that
\* passed the similarity filter and none for the others; no step goes back;
\* and an invocation that has issued its search reaches its end, which is
\* exactly one of: argument error, wrapped search failure, no similar
\* projects, unable to analyze, aggregated verdict.
C24_LinearPipeline ==
  /\ []PipelineState
  /\ [][PipelineStep]_vars
  /\ (FitServed /\ pc # "done") ~> (FitDone /\ EndsCount = 1)

\* An invocation ended with a verdict after one search and two agent calls,
\* a third hit having been filtered out.
C24_Witness ==
  /\ FitDone
  /\ EndsAggregatedVerdict
  /\ Len(searchLog) = 1
  /\ Len(FoundHits) = 3
  /\ Cardinality(SimilarPositions) = 2
  /\ Len(agentLog) = 2

----------------------------------------------------------------------------
\* Fit Analyzer: verdict and confidence (specification SpecFitLarge).

\* C29: in every returned FitAnalysis, whatever the number of scored
\* candidates, isGoodFit is true exactly when confidence is at least 50.
\* (Violated: with 50 fits among 101 scored candidates the percentage is
\* 49.50..., below 50, and its rounding, the confidence, is 50.)
C29_Original ==
  FitReturned =>
     (outcome.value.isGoodFit <=>
        (~outcome.value.confidence.nan /\ outcome.value.confidence.n >= 50))

\* What the code does: the verdict compares the percentage before rounding.
\* With up to 100 scored candidates verdict and confidence agree; from 101 on
\* the analysis can report a confidence of 50 with the verdict false, never a
\* verdict true with a confidence below 50.
VerdictAndConfidence ==
  FitReturned =>
     LET total == outcome.value.statistics.totalSimilarProjects
         good == outcome.value.statistics.goodFitProjects
         c == outcome.value.confidence
     IN /\ ~c.nan
        /\ outcome.value.isGoodFit <=> (total > 0 /\ 2 * good >= total)
        /\ (c.n >= 50) <=> (total > 0 /\ 200 * good >= 99 * total)
        /\ outcome.value.isGoodFit => c.n >= 50
        /\ total <= 100 => (outcome.value.isGoodFit <=> c.n >= 50)

RoundedUpToFifty ==
  /\ FitReturned
  /\ outcome.value.statistics.totalSimilarProjects = 101
  /\ outcome.value.statistics.goodFitProjects = 50
  /\ ~outcome.value.isGoodFit
  /\ outcome.value.confidence = Num(50)

----------------------------------------------------------------------------
\* Concurrent invocations (specification SpecInterleaved).

MatchingOperations ==
  {"matchProjects", "matchProjectsBatch", "matchProjectsWithKnowledgeBase",
   "isProjectGoodFitByKnowledgeBase"}

\* The invocations in progress, each with what it holds: the one that runs
\* and the ones that wait.
InProgress == {Frame} \cup {suspended[c] : c \in Invocations \ {current}}

\* The entries of matchProjects for the replies the invocation itself got.
OwnEntries(f) ==
  [j \in 1..Len(f.args.projects) |->
     MatchEntry(f.args.projects[j], f.replyLog[j], f.args.threshold)]

\* The scored candidates of the fit analyzer for the first n replies the
\* invocation itself got.
RECURSIVE OwnAnalysis(_, _, _)
OwnAnalysis(f, relevant, n) ==
  IF n = 0 THEN <<>>
  ELSE AnalysisAfter(OwnAnalysis(f, relevant, n - 1), relevant[n], f.replyLog[n],
                     f.args.fitThreshold)

\* What a finished invocation gives its caller, from its arguments and the
\* replies to its own calls alone.
OwnResult(f) ==
  CASE f.op \in {"matchProjects", "matchProjectsBatch"} ->
         [kind |-> "returned", value |-> SortByScoreDesc(OwnEntries(f)), message |-> ""]
    [] f.op = "matchProjectsWithKnowledgeBase" ->
         IF f.searchReplies[1].kind = "hits"
         THEN [kind |-> "returned",
               value |-> SortByScoreDesc(matchingResults(f.searchReplies[1].hits,
                                                         f.args.companyProfile,
                                                         f.args.threshold)),
               message |-> ""]
         ELSE [kind |-> "threw", value |-> <<>>,
               message |-> <<"Failed to match projects: ",
                             ErrorMessage(f.searchReplies[1])>>]
    [] f.op = "isProjectGoodFitByKnowledgeBase" ->
         IF f.searchReplies[1].kind = "hits"
         THEN LET relevant == FilterRelevant(f.searchReplies[1].hits,
                                             f.args.similarityThreshold)
              IN [kind |-> "returned",
                  value |-> IF Len(relevant) = 0 THEN NoSimilarProjects
                            ELSE FitVerdict(OwnAnalysis(f, relevant, Len(relevant))),
                  message |-> ""]
         ELSE [kind |-> "threw", value |-> <<>>,
               message |-> <<"Failed to check project fit: ",
                             ErrorMessage(f.searchReplies[1])>>]

\* C21: invocations in progress at once share nothing but the knowledge base:
\* under every interleaving of their steps, what a matchProjects,
\* matchProjectsBatch, matchProjectsWithKnowledgeBase or
\* isProjectGoodFitByKnowledgeBase invocation gives its caller is fixed by its
\* own arguments and the replies to its own calls; two invocations with the
\* same arguments and the same replies end alike.
C21_InvocationsShareNoState ==
  /\ \A f \in InProgress :
       (f.pc = "done" /\ f.op \in MatchingOperations) => f.outcome = OwnResult(f)
  /\ \A f, g \in InProgress :
       (/\ f.pc = "done" /\ g.pc = "done"
        /\ f.op \in MatchingOperations
        /\ f.op = g.op
        /\ f.args = g.args
        /\ f.replyLog = g.replyLog
        /\ f.searchReplies = g.searchReplies) => f.outcome = g.outcome

\* A matchProjects invocation has ended with its two entries while another,
\* for the same projects, waits for its second reply with the one entry of
\* its own first reply, which is not the first reply of the other.
C21_Witness ==
  /\ op = "matchProjects"
  /\ pc = "done"
  /\ Len(outcome.value) = 2
  /\ \E c \in Invocations \ {current} :
       /\ suspended[c].op = "matchProjects"
       /\ suspended[c].pc = "await_agent"
       /\ suspended[c].args = args
       /\ Len(suspended[c].replyLog) = 1
       /\ suspended[c].replyLog[1] # replyLog[1]
       /\ Len(suspended[c].results) = 1
       /\ results # suspended[c].results

----------------------------------------------------------------------------
\* Frame of the matching operations (specification SpecService).

StoreOperations == {"storeProject", "storeProjects", "initializeKnowledgeBase"}

\* A matching operation has issued no write.
NoWriteIssued == op \in MatchingOperations => (storeLog = <<>> /\ storeReplies = <<>>)

\* A step of a matching operation, its call and the delivery of its outcome
\* included, leaves the knowledge base and its contexts as they are; the
\* contexts change only in a step of a store, the knowledge base's definition
\* only in a step of the initialization, and a write is issued only by those
\* three.
ReadOnlyStep ==
  /\ (op \in MatchingOperations \/ op' \in MatchingOperations) =>
        (corpus' = corpus /\ knowledgeBase' = knowledgeBase /\ storeLog' = <<>>)
  /\ corpus' # corpus => (op \in {"storeProject", "storeProjects"} /\ op' = op)
  /\ knowledgeBase' # knowledgeBase => (op = "initializeKnowledgeBase" /\ op' = op)
  /\ Len(storeLog') > Len(storeLog) => op' \in StoreOperations

\* C30: matchProjects, matchProjectsBatch, matchProjectsWithKnowledgeBase and
\* isProjectGoodFitByKnowledgeBase leave the stored corpus as it is, however
\* they end (result, result with failed items, thrown error); writes are
\* issued only by storeProject, storeProjects and initializeKnowledgeBase.
C30_MatchingIsReadOnly ==
  /\ []NoWriteIssued
  /\ [][ReadOnlyStep]_vars

\* The fit analyzer has returned, one of its candidates having failed, on a
\* knowledge base that is defined and holds contexts.
C30_Witness ==
  /\ FitReturned
  /\ corpus # {}
  /\ knowledgeBase = "defined"
  /\ Len(replyLog) = 2
  /\ Failed(replyLog[1])
  /\ ~Failed(replyLog[2])
  /\ storeLog = <<>>

\* The knowledge-base matcher has thrown the wrapped error of its search on a
\* knowledge base that holds contexts.
C30_WitnessThrown ==
  /\ KbDone
  /\ outcome.kind = "threw"
  /\ corpus # {}
  /\ storeLog = <<>>

====
